---- MODULE Spec2Model ----
(***************************************************************************)
(* A model of the scout search server: the tables of scout/models.py and   *)
(* the request handlers of scout/views.py that write to them.              *)
(*                                                                         *)
(* Tables are modelled by their rows.  Document and Index rows carry the   *)
(* integer key SQLite assigns (largest key in the table plus one).  The    *)
(* surrogate keys of the other tables are not observable through the       *)
(* code that is modelled and are left out; IndexDocument is a bag of       *)
(* (index, document) rows so that a missing uniqueness check shows as a    *)
(* second copy of a row.                                                   *)
(***************************************************************************)
EXTENDS Bags, FiniteSets, Integers, Sequences, TLC

VARIABLES Index, Document, IndexDocument, Metadata, Attachment, BlobData,
          resp, threads, config

vars == <<Index, Document, IndexDocument, Metadata, Attachment, BlobData,
          resp, threads, config>>

tables == <<Index, Document, IndexDocument, Metadata, Attachment, BlobData>>

(***************************************************************************)
(* Bounds of the model.                                                    *)
(***************************************************************************)
MaxDocId == 2
MaxIndexId == 2

(***************************************************************************)
(* Values.                                                                 *)
(***************************************************************************)
\* Python's None in a column or a request field.
NULL == "NULL"
\* A key that the JSON body of a request does not have.
Absent == "<absent>"

IndexNames == {"a", "b"}
Contents == {"c1", "c2"}
MetaKeys == {"k1", "k2"}

\* The tokens of a document URL, /documents/<pk>/, and the identifiers a
\* client may give a document.  A token of digits names a primary key.
Tokens == {"1", "2", "3", "x"}
DigitVal == [t \in {"1", "2", "3"} |-> CASE t = "1" -> 1 [] t = "2" -> 2 [] t = "3" -> 3]
isdigit(pk) == pk \in DOMAIN DigitVal

\* JSON values of a metadata map: strings and numbers.
JStr(s) == [kind |-> "str", str |-> s, int |-> 0]
JInt(n) == [kind |-> "int", str |-> "", int |-> n]

Digits == <<"0", "1", "2", "3", "4", "5", "6", "7", "8", "9">>

RECURSIVE IntToStr(_)
IntToStr(n) ==
    IF n < 10 THEN Digits[n + 1]
    ELSE IntToStr(n \div 10) \o Digits[(n % 10) + 1]

\* The value a TextField stores: text as it is, anything else as str(value).
StrOf(v) == IF v.kind = "str" THEN v.str ELSE IntToStr(v.int)

\* Uploaded payloads, and base64(sha256(payload)) of each.
Payloads == {"xx", "yy"}
SHA256_B64(data) ==
    CASE data = "xx" -> "Xd6JaIf2dUybFb/jpEGuSAbfL96UABMR4IvxEGIuC74="
      [] data = "yy" -> "75DZwex2se3J7frywMBTWcEMzEmujs97f9Jc6cAuhqQ="

\* CompressedField: zlib on the way in, its inverse on the way out.
compress(data) == <<"zlib", data>>
decompress(stored) == stored[2]

\* werkzeug's secure_filename on the file names of the model: path
\* components are dropped.
RawFilenames == {"f.txt", "../f.txt", "g.jpg"}
secure_filename(filename) ==
    CASE filename = "../f.txt" -> "f.txt"
      [] OTHER -> filename

\* mimetypes.guess_type(filename)[0] or 'text/plain'
guess_mimetype(filename) ==
    CASE filename = "g.jpg" -> "image/jpeg"
      [] OTHER -> "text/plain"

MaxOf(S) == IF S = {} THEN 0 ELSE CHOOSE m \in S : \A x \in S : x <= m

\* The key SQLite gives a new row of a rowid table.
NextDocId == MaxOf({d.docid : d \in Document}) + 1
NextIndexId == MaxOf({i.id : i \in Index}) + 1

(***************************************************************************)
(* scout/models.py                                                         *)
(***************************************************************************)
DocRow(docid, content, identifier) ==
    [docid |-> docid, content |-> content, identifier |-> identifier]
IdxRow(id, name) == [id |-> id, name |-> name]
IdxDocRow(index, document) == [index |-> index, document |-> document]
MetaRow(document, key, value) ==
    [document |-> document, key |-> key, value |-> value]
AttRow(document, filename, hash, mimetype) ==
    [document |-> document, filename |-> filename, hash |-> hash,
     mimetype |-> mimetype]
BlobRow(hash, data) == [hash |-> hash, data |-> data]

\* Document.get_metadata: the dict of the (key, value) rows of a document.
get_metadata(M, docid) ==
    {[key |-> m.key, value |-> m.value] : m \in {r \in M : r.document = docid}}

\* Mutant: Metadata.delete() of the document's rows, then the inserts.
set_metadata_DeleteFirst(M, docid, map) ==
    {r \in M : r.document # docid}
        \cup {MetaRow(docid, e.key, StrOf(e.value)) : e \in map}

\* Document.set_metadata: Metadata.replace_many(...), one INSERT OR REPLACE
\* per item of the map; the unique index (document, key) makes the insert
\* replace the row of the same key, and no other row is touched.
set_metadata(M, docid, map) ==
    {r \in M : ~(r.document = docid /\ \E e \in map : e.key = r.key)}
        \cup {MetaRow(docid, e.key, StrOf(e.value)) : e \in map}

\* Mutant: the rows of the document are not deleted.
delete_metadata_None(M, docid) == M

\* Mutant: Metadata.delete() without its WHERE clause.
delete_metadata_All(M, docid) == {}

\* Document.delete_metadata
delete_metadata(M, docid) == {r \in M : r.document # docid}

\* The primary key of BlobData: an insert of a hash the table holds raises
\* IntegrityError.
BlobConflict(B, hash) == \E b \in B : b.hash = hash

\* The unique index of Attachment on (document, filename).
AttachmentConflict(A, docid, filename) ==
    \E a \in A : a.document = docid /\ a.filename = filename

\* Mutant: no BlobData row is written.
attach_blob_NoInsert(B, data) == B

\* Document.attach, first half: BlobData.create, IntegrityError ignored.
attach_blob(B, data) ==
    IF BlobConflict(B, SHA256_B64(data)) THEN B
    ELSE B \cup {BlobRow(SHA256_B64(data), compress(data))}

\* Mutant: the row is inserted, whatever the table holds.
attach_row_Insert(A, docid, filename, data) ==
    A \cup {AttRow(docid, secure_filename(filename), SHA256_B64(data),
                   guess_mimetype(secure_filename(filename)))}

\* Document.attach, second half: Attachment.create, and on IntegrityError
\* the row of that file name gets the new hash and mimetype.
attach_row(A, docid, filename, data) ==
    LET name == secure_filename(filename)
        new == AttRow(docid, name, SHA256_B64(data), guess_mimetype(name))
    IN  IF AttachmentConflict(A, docid, name)
        THEN {a \in A : ~(a.document = docid /\ a.filename = name)} \cup {new}
        ELSE A \cup {new}

\* Document.detach
detach(A, docid, filename) ==
    {a \in A : ~(a.document = docid /\ a.filename = filename)}

\* Attachment.blob: BlobData.get(BlobData.hash == self.hash), decompressed.
blob_data(B, hash) == {decompress(b.data) : b \in {r \in B : r.hash = hash}}

\* IndexDocument is a bag: each row with the number of its copies.
NoRows == [r \in {} |-> 0]
Copies(ID, row) == IF row \in DOMAIN ID THEN ID[row] ELSE 0

\* INSERT INTO main_index_document: one more copy of each row of `rows`.
InsertRows(ID, rows) ==
    [r \in DOMAIN ID \cup rows |->
        Copies(ID, r) + (IF r \in rows THEN 1 ELSE 0)]

\* Mutant: the DELETE is not executed.
RemoveRows_None(ID, gone) == ID

\* DELETE FROM main_index_document WHERE ...: every copy of the rows `gone`.
RemoveRows(ID, gone) == [r \in DOMAIN ID \ gone |-> ID[r]]

\* Mutant: the table has no unique index on (index, document).
IndexDocumentConflict_NoUniqueIndex(ID, index, docid) == FALSE

\* The unique index of IndexDocument on (index, document).
IndexDocumentConflict(ID, index, docid) ==
    IdxDocRow(index, docid) \in DOMAIN ID

\* Index.add_to_index: IndexDocument.create, IntegrityError ignored.
add_to_index(ID, index, docid) ==
    IF IndexDocumentConflict(ID, index, docid) THEN ID
    ELSE InsertRows(ID, {IdxDocRow(index, docid)})

\* Mutant: the column name is not declared unique.
IndexNameConflict_NotUnique(I, id, name) == FALSE

\* The unique constraint of Index.name, for the row `id` (0: a new row).
IndexNameConflict(I, id, name) == \E i \in I : i.name = name /\ i.id # id

\* Index.documents
index_documents(ID, index) ==
    {r.document : r \in {x \in DOMAIN ID : x.index = index}}

\* Document.get_indexes
get_indexes(ID, docid) ==
    {r.index : r \in {x \in DOMAIN ID : x.document = docid}}

(***************************************************************************)
(* scout/validator.py and the request of a handler                         *)
(***************************************************************************)
\* The JSON body of a POST: a string field is Absent, "" or a text; the list
\* `indexes` and the map `metadata` are there or not (null counts as empty).
Body(content, identifier, index, indexes, metadata) ==
    [content |-> content, identifier |-> identifier, index |-> index,
     indexes |-> indexes, metadata |-> metadata]
NoList == [has |-> FALSE, val |-> <<>>]
List(names) == [has |-> TRUE, val |-> names]
NoMap == [has |-> FALSE, val |-> {}]
Map(entries) == [has |-> TRUE, val |-> entries]
Entry(key, value) == [key |-> key, value |-> value]
File(filename, data) == [filename |-> filename, data |-> data]

\* data.get(key) is true
Truthy(field) == field \notin {Absent, "", NULL}

Range(seq) == {seq[i] : i \in DOMAIN seq}

\* Mutant: the names are looked up and the rows found are returned; names
\* without a row are not reported.
validate_indexes_Unchecked(I, body, required) ==
    LET names == IF Truthy(body.index) THEN <<body.index>>
                 ELSE body.indexes.val
    IN  IF names # <<>>
        THEN [kind |-> "list", missing |-> <<>>,
              rows |-> {r \in I : r.name \in Range(names)}]
        ELSE [kind |-> "none", missing |-> <<>>, rows |-> {}]

\* RequestValidator.validate_indexes: "none" (None), "error" (a 400 that
\* lists the unknown names in the order given) or "list" (the Index rows).
validate_indexes(I, body, required) ==
    LET names == IF Truthy(body.index) THEN <<body.index>>
                 ELSE body.indexes.val
        observed == {i.name : i \in {r \in I : r.name \in Range(names)}}
        invalid_names == SelectSeq(names, LAMBDA n : n \notin observed)
    IN  IF Truthy(body.index) \/ body.indexes.val # <<>>
        THEN IF invalid_names # <<>>
             THEN [kind |-> "error", missing |-> invalid_names, rows |-> {}]
             ELSE [kind |-> "list", missing |-> <<>>,
                   rows |-> {r \in I : r.name \in Range(names)}]
        ELSE IF (body.index # Absent \/ body.indexes.has) /\ ~required
             THEN [kind |-> "list", missing |-> <<>>, rows |-> {}]
             ELSE [kind |-> "none", missing |-> <<>>, rows |-> {}]

(***************************************************************************)
(* scout/views.py: what a handler answers                                  *)
(***************************************************************************)
Response(op, arg, sub, code, id, error, missing) ==
    [op |-> op, arg |-> arg, sub |-> sub, code |-> code, id |-> id,
     error |-> error, missing |-> missing]

Ok(op, arg, sub, id) == Response(op, arg, sub, 200, id, "", <<>>)
BadRequest(op, arg, sub, error) == Response(op, arg, sub, 400, 0, error, <<>>)
NotFound(op, arg, sub) == Response(op, arg, sub, 404, 0, "not found", <<>>)

\* _FileProcessingView._get_document: the documents the lookup may return
\* (several only when the identifier is shared); none is a 404.
get_document(D, pk) ==
    LET by_pk == IF isdigit(pk) THEN {d \in D : d.docid = DigitVal[pk]}
                 ELSE {}
    IN  IF by_pk # {} THEN by_pk ELSE {d \in D : d.identifier = pk}

\* AttachmentView._get_attachment
get_attachment(A, docid, pk) ==
    {a \in A : a.document = docid /\ a.filename = pk}

\* _FileProcessingView.attach_files: Document.attach for each file in turn.
RECURSIVE attach_files(_, _, _, _)
attach_files(A, B, docid, files) ==
    IF files = <<>> THEN [A |-> A, B |-> B]
    ELSE attach_files(attach_row(A, docid, Head(files).filename, Head(files).data),
                      attach_blob(B, Head(files).data), docid, Tail(files))

(***************************************************************************)
(* scout/views.py: IndexView                                               *)
(***************************************************************************)
\* Mutant: save() inserts a row instead of updating the row of index.id.
save_index_AsInsert(I, index, name) ==
    I \cup {IdxRow(MaxOf({i.id : i \in I}) + 1, name)}

\* index.name = name; index.save(): UPDATE main_index SET name WHERE id.
save_index(I, index, name) == (I \ {index}) \cup {IdxRow(index.id, name)}

\* Mutant: DELETE FROM main_index_document without its WHERE clause.
index_rows_All(ID, id) == DOMAIN ID

\* IndexDocument.index == index
index_rows(ID, id) == {r \in DOMAIN ID : r.index = id}

\* get_object_or_404(Index, Index.name == pk)
get_index(I, pk) == {i \in I : i.name = pk}

\* IndexView.create: POST /
IndexCreate(name) ==
    /\ IF ~Truthy(name)
       THEN /\ resp' = BadRequest("index_create", name, "", "missing name")
            /\ UNCHANGED tables
       ELSE IF IndexNameConflict(Index, 0, name)
       THEN /\ resp' = BadRequest("index_create", name, "", "already exists")
            /\ UNCHANGED tables
       ELSE /\ NextIndexId <= MaxIndexId
            /\ Index' = Index \cup {IdxRow(NextIndexId, name)}
            /\ resp' = Ok("index_create", name, "", NextIndexId)
            /\ UNCHANGED <<Document, IndexDocument, Metadata, Attachment,
                           BlobData>>
    /\ UNCHANGED <<threads, config>>

\* IndexView.update: POST or PUT /<pk>/
IndexUpdate(pk, name) ==
    /\ IF get_index(Index, pk) = {}
       THEN /\ resp' = NotFound("index_update", pk, name)
            /\ UNCHANGED tables
       ELSE LET index == CHOOSE i \in get_index(Index, pk) : TRUE
            IN  IF ~Truthy(name)
                THEN /\ resp' = BadRequest("index_update", pk, name,
                                           "missing name")
                     /\ UNCHANGED tables
                ELSE IF IndexNameConflict(Index, index.id, name)
                THEN /\ resp' = BadRequest("index_update", pk, name,
                                           "already in use")
                     /\ UNCHANGED tables
                ELSE /\ Index' = save_index(Index, index, name)
                     /\ resp' = Ok("index_update", pk, name, index.id)
                     /\ UNCHANGED <<Document, IndexDocument, Metadata,
                                    Attachment, BlobData>>
    /\ UNCHANGED <<threads, config>>

\* IndexView.delete: DELETE /<pk>/
IndexDelete(pk) ==
    /\ IF get_index(Index, pk) = {}
       THEN /\ resp' = NotFound("index_delete", pk, "")
            /\ UNCHANGED tables
       ELSE LET index == CHOOSE i \in get_index(Index, pk) : TRUE
            IN  /\ IndexDocument' =
                       RemoveRows(IndexDocument,
                                  index_rows(IndexDocument, index.id))
                /\ Index' = Index \ {index}
                /\ resp' = Ok("index_delete", pk, "", index.id)
                /\ UNCHANGED <<Document, Metadata, Attachment, BlobData>>
    /\ UNCHANGED <<threads, config>>

(***************************************************************************)
(* scout/views.py: DocumentView                                            *)
(***************************************************************************)
\* DocumentView.update on the row `document` that _get_document has found,
\* for the request `op` (a POST to /documents/ whose identifier names a
\* document is answered by update as well): the rows of each table when the
\* handler returns, and its answer.  The handler writes as it goes: what it
\* has written when validate_indexes raises the 400 stays written.
update_result(op, pk, body, files, document) ==
    LET docid == document.docid
        saved == DocRow(docid,
                        IF Truthy(body.content) THEN body.content
                        ELSE document.content,
                        IF Truthy(body.identifier) THEN body.identifier
                        ELSE document.identifier)
        cleared == IF body.metadata.has
                   THEN delete_metadata(Metadata, docid) ELSE Metadata
        attached == attach_files(Attachment, BlobData, docid, files)
        indexes == validate_indexes(Index, body, FALSE)
    IN  [Document |-> (Document \ {document}) \cup {saved},
         Metadata |-> IF body.metadata.has /\ body.metadata.val # {}
                      THEN set_metadata(cleared, docid, body.metadata.val)
                      ELSE cleared,
         Attachment |-> attached.A,
         BlobData |-> attached.B,
         IndexDocument |->
             IF indexes.kind = "list"
             THEN InsertRows(
                      RemoveRows(IndexDocument,
                                 {r \in DOMAIN IndexDocument :
                                      r.document = docid}),
                      {IdxDocRow(i.id, docid) : i \in indexes.rows})
             ELSE IndexDocument,
         resp |-> IF indexes.kind = "error"
                  THEN Response(op, pk, "", 400, 0, "indexes not found",
                                indexes.missing)
                  ELSE Ok(op, pk, "", docid)]

update(op, pk, body, files) ==
    IF get_document(Document, pk) = {}
    THEN /\ resp' = NotFound(op, pk, "")
         /\ UNCHANGED tables
    ELSE \E document \in get_document(Document, pk) :
           LET result == update_result(op, pk, body, files, document)
           IN  /\ Document' = result.Document
               /\ Metadata' = result.Metadata
               /\ Attachment' = result.Attachment
               /\ BlobData' = result.BlobData
               /\ IndexDocument' = result.IndexDocument
               /\ Index' = Index
               /\ resp' = result.resp

\* DocumentView.update: POST or PUT /documents/<pk>/
DocumentUpdate(pk, body, files) ==
    /\ update("document_update", pk, body, files)
    /\ UNCHANGED <<threads, config>>

RECURSIVE add_to_indexes(_, _, _)
add_to_indexes(ID, rows, docid) ==
    IF rows = {} THEN ID
    ELSE LET index == CHOOSE i \in rows : TRUE
         IN  add_to_indexes(add_to_index(ID, index.id, docid),
                            rows \ {index}, docid)

\* DocumentView.create: POST /documents/
DocumentCreate(body, files) ==
    LET indexes == validate_indexes(Index, body, TRUE)
        arg == IF Truthy(body.identifier) THEN body.identifier ELSE ""
    IN
    /\ IF ~Truthy(body.content)
       THEN /\ resp' = BadRequest("document_create", arg, "",
                                  "missing content")
            /\ UNCHANGED tables
       ELSE IF indexes.kind = "error"
       THEN /\ resp' = Response("document_create", arg, "", 400, 0,
                                "indexes not found", indexes.missing)
            /\ UNCHANGED tables
       ELSE IF indexes.kind = "none"
       THEN /\ resp' = BadRequest("document_create", arg, "",
                                  "index required")
            /\ UNCHANGED tables
       ELSE IF Truthy(body.identifier)
               /\ get_document(Document, body.identifier) # {}
       THEN update("document_create", body.identifier, body, files)
       ELSE LET docid == NextDocId
                attached == attach_files(Attachment, BlobData, docid, files)
            IN  /\ docid <= MaxDocId
                /\ Document' = Document \cup
                       {DocRow(docid, body.content,
                               IF body.identifier = Absent THEN NULL
                               ELSE body.identifier)}
                /\ Metadata' = IF body.metadata.val # {}
                               THEN set_metadata(Metadata, docid,
                                                 body.metadata.val)
                               ELSE Metadata
                /\ IndexDocument' =
                       add_to_indexes(IndexDocument, indexes.rows, docid)
                /\ Attachment' = attached.A
                /\ BlobData' = attached.B
                /\ Index' = Index
                /\ resp' = Ok("document_create", arg, "", docid)
    /\ UNCHANGED <<threads, config>>

\* DocumentView.delete: DELETE /documents/<pk>/
DocumentDelete(pk) ==
    /\ IF get_document(Document, pk) = {}
       THEN /\ resp' = NotFound("document_delete", pk, "")
            /\ UNCHANGED tables
       ELSE \E document \in get_document(Document, pk) :
            /\ IndexDocument' =
                   RemoveRows(IndexDocument,
                              {r \in DOMAIN IndexDocument :
                                   r.document = document.docid})
            /\ Attachment' = {a \in Attachment :
                                  a.document # document.docid}
            /\ Metadata' = delete_metadata(Metadata, document.docid)
            /\ Document' = Document \ {document}
            /\ resp' = Ok("document_delete", pk, "", document.docid)
            /\ UNCHANGED <<Index, BlobData>>
    /\ UNCHANGED <<threads, config>>

(***************************************************************************)
(* scout/views.py: AttachmentView                                          *)
(***************************************************************************)
\* AttachmentView.create: POST /documents/<document_id>/attachments/
AttachmentCreate(document_id, files) ==
    /\ IF get_document(Document, document_id) = {}
       THEN /\ resp' = NotFound("attachment_create", document_id, "")
            /\ UNCHANGED tables
       ELSE \E document \in get_document(Document, document_id) :
            IF files = <<>>
            THEN /\ resp' = BadRequest("attachment_create", document_id, "",
                                       "no file")
                 /\ UNCHANGED tables
            ELSE LET attached == attach_files(Attachment, BlobData,
                                              document.docid, files)
                 IN  /\ Attachment' = attached.A
                     /\ BlobData' = attached.B
                     /\ resp' = Ok("attachment_create", document_id, "",
                                   document.docid)
                     /\ UNCHANGED <<Index, Document, IndexDocument, Metadata>>
    /\ UNCHANGED <<threads, config>>

\* AttachmentView.update: POST or PUT
\* /documents/<document_id>/attachments/<pk>/
AttachmentUpdate(document_id, pk, files) ==
    /\ IF get_document(Document, document_id) = {}
       THEN /\ resp' = NotFound("attachment_update", document_id, pk)
            /\ UNCHANGED tables
       ELSE \E document \in get_document(Document, document_id) :
            IF get_attachment(Attachment, document.docid, pk) = {}
            THEN /\ resp' = NotFound("attachment_update", document_id, pk)
                 /\ UNCHANGED tables
            ELSE IF Len(files) # 1
            THEN /\ resp' = BadRequest("attachment_update", document_id, pk,
                                       IF Len(files) > 1 THEN "one file only"
                                       ELSE "no file")
                 /\ UNCHANGED tables
            ELSE LET attached ==
                         attach_files(
                             Attachment \ get_attachment(Attachment,
                                                         document.docid, pk),
                             BlobData, document.docid, files)
                 IN  /\ Attachment' = attached.A
                     /\ BlobData' = attached.B
                     \* self.detail(document.get_id(), attachment.filename)
                     /\ resp' = IF get_attachment(attached.A, document.docid,
                                                  pk) = {}
                                THEN NotFound("attachment_update",
                                              document_id, pk)
                                ELSE Ok("attachment_update", document_id, pk,
                                        document.docid)
                     /\ UNCHANGED <<Index, Document, IndexDocument, Metadata>>
    /\ UNCHANGED <<threads, config>>

\* Mutant: the blob of the attachment is deleted with it when no other
\* attachment holds its hash.
AttachmentDelete_CollectBlob(document_id, pk) ==
    /\ IF get_document(Document, document_id) = {}
       THEN /\ resp' = NotFound("attachment_delete", document_id, pk)
            /\ UNCHANGED tables
       ELSE \E document \in get_document(Document, document_id) :
            IF get_attachment(Attachment, document.docid, pk) = {}
            THEN /\ resp' = NotFound("attachment_delete", document_id, pk)
                 /\ UNCHANGED tables
            ELSE /\ Attachment' = Attachment \
                        get_attachment(Attachment, document.docid, pk)
                 /\ BlobData' = {b \in BlobData :
                                     \E a \in Attachment' : a.hash = b.hash}
                 /\ resp' = Ok("attachment_delete", document_id, pk,
                               document.docid)
                 /\ UNCHANGED <<Index, Document, IndexDocument, Metadata>>
    /\ UNCHANGED <<threads, config>>

\* AttachmentView.delete: DELETE /documents/<document_id>/attachments/<pk>/
AttachmentDelete(document_id, pk) ==
    /\ IF get_document(Document, document_id) = {}
       THEN /\ resp' = NotFound("attachment_delete", document_id, pk)
            /\ UNCHANGED tables
       ELSE \E document \in get_document(Document, document_id) :
            IF get_attachment(Attachment, document.docid, pk) = {}
            THEN /\ resp' = NotFound("attachment_delete", document_id, pk)
                 /\ UNCHANGED tables
            ELSE /\ Attachment' = Attachment \
                        get_attachment(Attachment, document.docid, pk)
                 /\ resp' = Ok("attachment_delete", document_id, pk,
                               document.docid)
                 /\ UNCHANGED <<Index, Document, IndexDocument, Metadata,
                                BlobData>>
    /\ UNCHANGED <<threads, config>>

\* DocumentView.detail: GET /documents/<pk>/
DocumentDetail(pk) ==
    /\ resp' = IF get_document(Document, pk) = {}
               THEN NotFound("document_detail", pk, "")
               ELSE LET document == CHOOSE d \in get_document(Document, pk) :
                                        TRUE
                    IN  Ok("document_detail", pk, "", document.docid)
    /\ UNCHANGED <<tables, threads, config>>

\* AttachmentView.detail: GET /documents/<document_id>/attachments/<pk>/
AttachmentDetail(document_id, pk) ==
    /\ resp' =
           IF get_document(Document, document_id) = {}
           THEN NotFound("attachment_detail", document_id, pk)
           ELSE LET document ==
                        CHOOSE d \in get_document(Document, document_id) : TRUE
                IN  IF get_attachment(Attachment, document.docid, pk) = {}
                    THEN NotFound("attachment_detail", document_id, pk)
                    ELSE Ok("attachment_detail", document_id, pk,
                            document.docid)
    /\ UNCHANGED <<tables, threads, config>>

\* attachment_download: GET
\* /documents/<document_id>/attachments/<pk>/download/.  The document is
\* looked up by its primary key.
attachment_download(document_id, pk) ==
    LET documents == IF isdigit(document_id)
                     THEN {d \in Document : d.docid = DigitVal[document_id]}
                     ELSE {}
    IN  IF documents = {}
        THEN NotFound("attachment_download", document_id, pk)
        ELSE LET document == CHOOSE d \in documents : TRUE
             IN  IF get_attachment(Attachment, document.docid, pk) = {}
                 THEN NotFound("attachment_download", document_id, pk)
                 ELSE Ok("attachment_download", document_id, pk,
                         document.docid)

AttachmentDownload(document_id, pk) ==
    /\ resp' = attachment_download(document_id, pk)
    /\ UNCHANGED <<tables, threads, config>>

(***************************************************************************)
(* scout/views.py: authentication                                          *)
(***************************************************************************)
\* request.headers.get('key') and request.args.get('key') are truthy.
Given(value) == value \notin {Absent, ""}

\* Mutant: the query parameter is used even when a header is given.
authenticate_request_QueryFirst(key, header, arg) ==
    \/ key \in {NULL, ""}
    \/ key = (IF Given(arg) THEN arg ELSE IF Given(header) THEN header
              ELSE NULL)

\* authenticate_request: with a configured key, the key of the request is
\* its `key` header when that is given, else its `key` query parameter when
\* that is given, else None, and it has to equal the configured key.
authenticate_request(key, header, arg) ==
    \/ key \in {NULL, ""}
    \/ key = (IF Given(header) THEN header ELSE IF Given(arg) THEN arg
              ELSE NULL)

\* ScoutView.dispatch_request: the 401 is returned before the handler runs.
dispatch_request(header, arg, handler) ==
    IF authenticate_request(config.AUTHENTICATION, header, arg)
    THEN handler
    ELSE /\ resp' = Response("dispatch_request", "", "", 401, 0,
                             "Invalid API key", <<>>)
         /\ UNCHANGED <<tables, threads, config>>

\* The server is started with --api-key, or without.
Configure(api_key) ==
    /\ config' = [config EXCEPT !.AUTHENTICATION =
                      IF Given(api_key) THEN api_key ELSE @]
    /\ UNCHANGED <<tables, resp, threads>>

(***************************************************************************)
(* scout/server.py: the configuration of a server.  A launch is the        *)
(* config file (the options it sets), the environment and the command      *)
(* line (the flags given, and the positional arguments).                   *)
(***************************************************************************)
Options ==
    {"HOST", "PORT", "PAGINATE_BY", "URL_PREFIX", "AUTHENTICATION", "DEBUG",
     "DATABASE"}

Launch(file, environ, flags, args) ==
    [file |-> file, environ |-> environ, flags |-> flags, args |-> args]

\* get_option_parser: a flag that is not given has the default of its
\* option, None when it has none.
get_option_parser(flags) ==
    [host |-> IF "host" \in DOMAIN flags THEN flags.host ELSE "127.0.0.1",
     port |-> IF "port" \in DOMAIN flags THEN flags.port ELSE 8000,
     url_prefix |-> IF "url_prefix" \in DOMAIN flags THEN flags.url_prefix
                    ELSE NULL,
     debug |-> "debug" \in DOMAIN flags,
     paginate_by |-> IF "paginate_by" \in DOMAIN flags
                     THEN flags.paginate_by ELSE 50,
     api_key |-> IF "api_key" \in DOMAIN flags THEN flags.api_key ELSE NULL]

\* Python's truth of a text option.
Set(value) == value \notin {NULL, ""}

\* parse_options: the exit of panic, or the config handed to create_server.
parse_options(launch) ==
    LET options == get_option_parser(launch.flags)
        environ == IF "SCOUT_DATABASE" \in DOMAIN launch.environ
                   THEN launch.environ.SCOUT_DATABASE ELSE NULL
        keys == {"DATABASE", "SQLITE_PRAGMAS", "HOST", "PORT", "URL_PREFIX"}
                \cup (IF Set(options.api_key) THEN {"AUTHENTICATION"} ELSE {})
                \cup (IF options.debug THEN {"DEBUG"} ELSE {})
                \cup (IF options.paginate_by # 0 THEN {"PAGINATE_BY"}
                      ELSE {})
    IN  IF Len(launch.args) = 0 /\ ~Set(environ)
        THEN [exit |-> 1, config |-> <<>>]
        ELSE IF Len(launch.args) > 1 THEN [exit |-> 1, config |-> <<>>]
        ELSE IF options.paginate_by # 0 /\ options.paginate_by \notin 1..1000
        THEN [exit |-> 1, config |-> <<>>]
        ELSE [exit |-> 0,
              config |->
                  [o \in keys |->
                      CASE o = "DATABASE" ->
                               IF Len(launch.args) > 0 THEN launch.args[1]
                               ELSE environ
                        [] o = "SQLITE_PRAGMAS" -> "pragmas"
                        [] o = "HOST" ->
                               IF Set(options.host) THEN options.host
                               ELSE "127.0.0.1"
                        [] o = "PORT" ->
                               IF options.port # 0 THEN options.port
                               ELSE 8000
                        [] o = "URL_PREFIX" ->
                               IF Set(options.url_prefix)
                               THEN options.url_prefix ELSE ""
                        [] o = "AUTHENTICATION" -> options.api_key
                        [] o = "DEBUG" -> TRUE
                        [] o = "PAGINATE_BY" -> options.paginate_by]]

\* create_server: app.config is the defaults of the framework, then the
\* config file, then the config of parse_options; a key that is in none of
\* them reads as None.
create_server(config_dict, file) ==
    [o \in Options \cup {"PAGE_VAR"} |->
        IF o \in DOMAIN config_dict THEN config_dict[o]
        ELSE IF o \in DOMAIN file THEN file[o]
        ELSE IF o = "DEBUG" THEN FALSE
        ELSE IF o = "PAGE_VAR" THEN "page"
        ELSE NULL]

\* main: the server is started, or the process exits.
Main(launch) ==
    /\ resp' = [launch |-> launch] @@
               Response("main", "", "", parse_options(launch).exit, 0, "",
                        <<>>)
    /\ config' = IF parse_options(launch).exit = 0
                 THEN create_server(parse_options(launch).config, launch.file)
                 ELSE config
    /\ UNCHANGED <<tables, threads>>

(***************************************************************************)
(* Text.  Where the code takes a string apart (strip, split, startswith,   *)
(* comparison) the string is the sequence of its characters; the values    *)
(* the tables hold are written as words and Chars gives their characters.  *)
(***************************************************************************)
\* The characters in use, in the order of their code points.
Alphabet ==
    <<" ", "*", ",", "-", "0", "1", "2", "3", "4", "5", "6", "7", "8", "9",
      "_", "a", "b", "c", "d", "e", "f", "g", "h", "i", "j", "k", "l", "m",
      "n", "o", "p", "q", "r", "s", "t", "u", "v", "w", "x", "y", "z">>

ord(c) == CHOOSE i \in DOMAIN Alphabet : Alphabet[i] = c

Chars(word) ==
    CASE word = "" -> <<>>
      [] word = "a" -> <<"a">>
      [] word = "b" -> <<"b">>
      [] word = "c" -> <<"c">>
      [] word = "name" -> <<"n", "a", "m", "e">>
      [] word = "document_count" ->
             <<"d", "o", "c", "u", "m", "e", "n", "t", "_", "c", "o", "u",
               "n", "t">>
      [] word = "1" -> <<"1">>
      [] word = "2" -> <<"2">>
      [] word = "3" -> <<"3">>
      [] word = "10" -> <<"1", "0">>
      [] word = "v" -> <<"v">>
      [] word = "w" -> <<"w">>
      [] word = "x" -> <<"x">>
      [] word = "k1" -> <<"k", "1">>
      [] word = "k2" -> <<"k", "2">>
      [] word = "c1" -> <<"c", "1">>
      [] word = "c2" -> <<"c", "2">>
      [] word = "page" -> <<"p", "a", "g", "e">>
      [] word = "q" -> <<"q">>
      [] word = "key" -> <<"k", "e", "y">>
      [] word = "ranking" -> <<"r", "a", "n", "k", "i", "n", "g">>
      [] word = "identifier" ->
             <<"i", "d", "e", "n", "t", "i", "f", "i", "e", "r">>
      [] word = "index" -> <<"i", "n", "d", "e", "x">>
      [] word = "ordering" -> <<"o", "r", "d", "e", "r", "i", "n", "g">>
      [] word = "id" -> <<"i", "d">>
      [] word = "content" -> <<"c", "o", "n", "t", "e", "n", "t">>
      [] word = "score" -> <<"s", "c", "o", "r", "e">>
      [] word = "none" -> <<"n", "o", "n", "e">>
      [] word = "bm25" -> <<"b", "m", "2", "5">>
      [] word = "simple" -> <<"s", "i", "m", "p", "l", "e">>
      [] word = "eq" -> <<"e", "q">>
      [] word = "ne" -> <<"n", "e">>
      [] word = "ge" -> <<"g", "e">>
      [] word = "gt" -> <<"g", "t">>
      [] word = "le" -> <<"l", "e">>
      [] word = "lt" -> <<"l", "t">>
      [] word = "in" -> <<"i", "n">>
      [] word = "contains" -> <<"c", "o", "n", "t", "a", "i", "n", "s">>
      [] word = "startswith" ->
             <<"s", "t", "a", "r", "t", "s", "w", "i", "t", "h">>
      [] word = "endswith" -> <<"e", "n", "d", "s", "w", "i", "t", "h">>
      [] word = "regex" -> <<"r", "e", "g", "e", "x">>

\* str.strip(): leading and trailing whitespace removed.
RECURSIVE lstrip_space(_)
lstrip_space(s) ==
    IF s # <<>> /\ Head(s) = " " THEN lstrip_space(Tail(s)) ELSE s

RECURSIVE rstrip_space(_)
rstrip_space(s) ==
    IF s # <<>> /\ s[Len(s)] = " "
    THEN rstrip_space(SubSeq(s, 1, Len(s) - 1)) ELSE s

\* Mutant: the text is taken as given.
strip_None(s) == s

strip(s) == rstrip_space(lstrip_space(s))

\* str.startswith
startswith(s, prefix) ==
    Len(prefix) <= Len(s) /\ SubSeq(s, 1, Len(prefix)) = prefix

\* str.endswith
endswith(s, suffix) ==
    /\ Len(suffix) <= Len(s)
    /\ SubSeq(s, Len(s) - Len(suffix) + 1, Len(s)) = suffix

\* A substring: what LIKE '%r%' looks for.
contains(s, part) ==
    \E i \in 1..(Len(s) + 1) :
        i + Len(part) - 1 <= Len(s) /\ SubSeq(s, i, i + Len(part) - 1) = part

\* Mutant: the dash is left in place.
lstrip_dash_None(s) == s

\* str.lstrip('-'): every leading dash removed.
RECURSIVE lstrip_dash(_)
lstrip_dash(s) ==
    IF s # <<>> /\ Head(s) = "-" THEN lstrip_dash(Tail(s)) ELSE s

\* The order of two TEXT values in SQLite: byte by byte, a prefix first.
RECURSIVE less(_, _)
less(s, t) ==
    IF t = <<>> THEN FALSE
    ELSE IF s = <<>> THEN TRUE
    ELSE IF Head(s) # Head(t) THEN ord(Head(s)) < ord(Head(t))
    ELSE less(Tail(s), Tail(t))

\* str.split(','), each part stripped.
RECURSIVE split_comma(_, _)
split_comma(s, part) ==
    IF s = <<>> THEN <<strip(part)>>
    ELSE IF Head(s) = "," THEN <<strip(part)>> \o split_comma(Tail(s), <<>>)
    ELSE split_comma(Tail(s), Append(part, Head(s)))

(***************************************************************************)
(* scout/search.py: DocumentSearch                                         *)
(***************************************************************************)
SEARCH_BM25 == "bm25"
SEARCH_SIMPLE == "simple"
SEARCH_NONE == "none"

PROTECTED_KEYS ==
    {"page", "q", "key", "ranking", "identifier", "index", "ordering"}

\* The keys of `operations` in _build_filter_expression.
operations ==
    {"eq", "ne", "ge", "gt", "le", "lt", "in", "contains", "startswith",
     "endswith", "regex"}

\* A filter: its key as given ("k1", "k1__ge") and its value, one text or a
\* list of texts.
Filter(key, many, values) == [key |-> key, many |-> many, values |-> values]

\* key.find('__') and key.rsplit('__', 1): the place of the last "__".
rfind_dunder(key) ==
    LET at == {i \in 1..Len(key) :
                  i < Len(key) /\ key[i] = "_" /\ key[i + 1] = "_"}
    IN  IF at = {} THEN 0 ELSE CHOOSE i \in at : \A j \in at : j <= i

filter_key(key) ==
    IF rfind_dunder(key) = 0 THEN key
    ELSE SubSeq(key, 1, rfind_dunder(key) - 1)

filter_op(key) ==
    IF rfind_dunder(key) = 0 THEN Chars("eq")
    ELSE SubSeq(key, rfind_dunder(key) + 2, Len(key))

\* op(Metadata.value, value).  LIKE and the regular expression are taken
\* for values without wildcards or special characters, in one letter case.
apply_op(op, lhs, rhs) ==
    CASE op = Chars("eq") -> lhs = rhs
      [] op = Chars("ne") -> lhs # rhs
      [] op = Chars("ge") -> ~less(lhs, rhs)
      [] op = Chars("gt") -> less(rhs, lhs)
      [] op = Chars("le") -> ~less(rhs, lhs)
      [] op = Chars("lt") -> less(lhs, rhs)
      [] op = Chars("in") -> lhs \in Range(split_comma(rhs, <<>>))
      [] op = Chars("contains") -> contains(lhs, rhs)
      [] op = Chars("startswith") -> startswith(lhs, rhs)
      [] op = Chars("endswith") -> endswith(lhs, rhs)
      [] op = Chars("regex") -> contains(lhs, rhs)

\* _build_filter_expression raises the 400 for an operation it has not.
filter_invalid(filter) ==
    filter_op(filter.key) \notin {Chars(op) : op \in operations}

\* Mutant: the value of the row has to be accepted for every value given.
build_filter_expression_AllValues(M, docid, filter) ==
    \E m \in M :
        /\ m.document = docid
        /\ Chars(m.key) = filter_key(filter.key)
        /\ \A i \in DOMAIN filter.values :
               apply_op(filter_op(filter.key), Chars(m.value),
                        filter.values[i])

\* _build_filter_expression: EXISTS (a Metadata row of the document with
\* the key and a value that the operation accepts for one of the values).
build_filter_expression(M, docid, filter) ==
    \E m \in M :
        /\ m.document = docid
        /\ Chars(m.key) = filter_key(filter.key)
        /\ \E i \in DOMAIN filter.values :
               apply_op(filter_op(filter.key), Chars(m.value),
                        filter.values[i])

\* get_metadata_filter_expression: when some key is not a protected key,
\* an expression is built for every item of `filters`.
filtered_keys(filters) ==
    IF \E f \in filters : \A key \in PROTECTED_KEYS : f.key # Chars(key)
    THEN filters ELSE {}

\* apply_sorting: the ORDER BY terms.
RECURSIVE sort_terms(_, _)
sort_terms(ordering, mapping) ==
    IF ordering = <<>> THEN <<>>
    ELSE LET part == strip(Head(ordering))
             is_desc == startswith(part, <<"-">>)
             identifier == lstrip_dash(part)
         IN  (IF \E name \in mapping : Chars(name) = identifier
              THEN <<[key |-> CHOOSE name \in mapping :
                                  Chars(name) = identifier,
                      desc |-> is_desc]>>
              ELSE <<>>) \o sort_terms(Tail(ordering), mapping)

apply_sorting(ordering, mapping, default) ==
    IF sort_terms(ordering, mapping) = <<>>
    THEN <<[key |-> default, desc |-> FALSE]>>
    ELSE sort_terms(ordering, mapping)

\* apply_rank_and_sort: `score` is a sort option, the default one, and a
\* column of the result when the search is ranked.
apply_rank_and_sort(ranking, ordering) ==
    IF ranking # NULL
    THEN apply_sorting(ordering, {"content", "id", "identifier", "score"},
                       "score")
    ELSE apply_sorting(ordering, {"content", "id", "identifier"}, "id")

\* The index scope of a search: none, one index, or several (a list, or a
\* sub-query that selects them).
NoScope == [given |-> FALSE, ids |-> {}]
Scope(ids) == [given |-> TRUE, ids |-> ids]

\* Document.match(phrase), for contents and phrases of one word.
match(document, phrase) == Chars(document.content) = phrase

\* query.join(IndexDocument).where(IndexDocument.index << index): the rows
\* of the join that a document has, one for each membership in the scope.
RECURSIVE sum_copies(_, _)
sum_copies(ID, rows) ==
    IF rows = {} THEN 0
    ELSE LET r == CHOOSE x \in rows : TRUE
         IN  ID[r] + sum_copies(ID, rows \ {r})

joined_rows(ID, docid, index) ==
    IF ~index.given THEN 1
    ELSE sum_copies(ID, {r \in DOMAIN ID :
                            r.document = docid /\ r.index \in index.ids})

SearchResult(raised, documents, score, order_by) ==
    [raised |-> raised, documents |-> documents, score |-> score,
     order_by |-> order_by]

\* DocumentSearch.search: the exception it raises, or the rows of the
\* query (each document as many times as the query returns it), whether
\* they carry a score, and the ORDER BY terms.
search(phrase, index, ranking, ordering, filters) ==
    LET stripped == strip(phrase)
        rank == IF stripped = <<"*">> \/ ranking = SEARCH_NONE
                THEN NULL ELSE ranking
        selected ==
            {d \in Document :
                /\ stripped # <<"*">> => match(d, stripped)
                /\ joined_rows(IndexDocument, d.docid, index) > 0
                /\ \A f \in filtered_keys(filters) :
                       build_filter_expression(Metadata, d.docid, f)}
    IN  IF stripped = <<>>
        THEN SearchResult("InvalidSearchException", NoRows, FALSE, <<>>)
        ELSE IF \E f \in filtered_keys(filters) : filter_invalid(f)
        THEN SearchResult("InvalidRequestException", NoRows, FALSE, <<>>)
        ELSE IF rank \notin {NULL, SEARCH_BM25, SEARCH_SIMPLE}
        THEN SearchResult("InvalidRequestException", NoRows, FALSE, <<>>)
        ELSE SearchResult("",
                 [docid \in {d.docid : d \in selected} |->
                     joined_rows(IndexDocument, docid, index)],
                 rank # NULL,
                 apply_rank_and_sort(rank, ordering))

\* engine.search(...) is called: the result is what the caller holds.
Search(phrase, index, ranking, ordering, filters) ==
    /\ resp' = [result |-> search(phrase, index, ranking, ordering, filters)]
                   @@ Response("search", "", "", 0, 0, "", <<>>)
    /\ UNCHANGED <<tables, threads, config>>

(***************************************************************************)
(* scout/views.py: searching over HTTP                                     *)
(***************************************************************************)
\* extract_get_params: the query-string arguments without the protected
\* keys, each with the list of its values.
extract_get_params(args) ==
    {f \in args : \A key \in PROTECTED_KEYS : f.key # Chars(key)}

\* DocumentView.list_view and _search_response: GET /documents/ with the
\* `index` arguments idx_list and the search term q.  The scope is the
\* sub-query of the ids of the Index rows whose name is in idx_list; a blank
\* term searches for "*".
list_view(idx_list, q, ranking, ordering, args) ==
    LET indexes == IF idx_list # <<>>
                   THEN Scope({i.id : i \in
                                  {x \in Index : x.name \in Range(idx_list)}})
                   ELSE NoScope
        term == strip(q)
        result == search(IF term = <<>> THEN <<"*">> ELSE term, indexes,
                         ranking, ordering, extract_get_params(args))
    IN  [result |-> result] @@
            (IF result.raised # ""
             THEN BadRequest("document_list", "", "", result.raised)
             ELSE Ok("document_list", "", "", 0))

\* GET /documents/?index=...&q=...
DocumentList(idx_list, q, ranking, ordering, args) ==
    /\ resp' = list_view(idx_list, q, ranking, ordering, args)
    /\ UNCHANGED <<tables, threads, config>>

(***************************************************************************)
(* scout/views.py: pagination.  ScoutView.paginated_query hands the query  *)
(* to a PaginatedQuery with the configured page size and page variable     *)
(* and with check_bounds=False; the page is read from the query string.    *)
(***************************************************************************)
\* str.isdigit() of a query-string value.
isdigit_text(s) ==
    s # <<>> /\ \A i \in DOMAIN s : s[i] \in Range(Digits)

\* int() of a text of digits.
RECURSIVE int(_)
int(s) ==
    IF s = <<>> THEN 0
    ELSE 10 * int(SubSeq(s, 1, Len(s) - 1)) + (ord(s[Len(s)]) - ord("0"))

\* PaginatedQuery.get_page: the page of the request, 1 when the parameter
\* is missing or is not a number, and never below 1.
get_page(page) ==
    IF page # Absent /\ isdigit_text(page)
    THEN (IF int(page) < 1 THEN 1 ELSE int(page))
    ELSE 1

\* PaginatedQuery.get_page_count: ceil(count / paginate_by).
get_page_count(count, paginate_by) ==
    (count + paginate_by - 1) \div paginate_by

\* query.paginate(page, paginate_by): LIMIT paginate_by OFFSET
\* (page - 1) * paginate_by.
paginate(rows, page, paginate_by) ==
    LET first == (page - 1) * paginate_by + 1
        last == IF page * paginate_by < Len(rows)
                THEN page * paginate_by ELSE Len(rows)
    IN  SubSeq(rows, first, last)

\* A page of a result: the rows, the page and the page count, or the 404
\* of a page out of bounds when the bounds are checked.
Page(code, rows, page, pages) ==
    [code |-> code, rows |-> rows, page |-> page, pages |-> pages]

PaginatedQuery(rows, paginate_by, page, check_bounds) ==
    LET pages == get_page_count(Len(rows), paginate_by)
    IN  IF check_bounds /\ get_page(page) > pages
        THEN Page(404, <<>>, get_page(page), pages)
        ELSE Page(200, paginate(rows, get_page(page), paginate_by),
                  get_page(page), pages)

\* Mutant: the bounds of the page are checked.
paginated_query_CheckBounds(rows, page) ==
    PaginatedQuery(rows, config.PAGINATE_BY, page, TRUE)

\* ScoutView.paginated_query
paginated_query(rows, page) ==
    PaginatedQuery(rows, config.PAGINATE_BY, page, FALSE)

\* The order of two rows of the index list under the ORDER BY terms; rows
\* the terms do not tell apart come in the order of their ids.
document_count(ID, index) == sum_copies(ID, index_rows(ID, index.id))

RECURSIVE index_before(_, _, _, _)
index_before(ID, r, s, terms) ==
    IF terms = <<>> THEN r.id < s.id
    ELSE LET key == Head(terms).key
             lt(x, y) ==
                 CASE key = "name" -> less(Chars(x.name), Chars(y.name))
                   [] key = "id" -> x.id < y.id
                   [] key = "document_count" ->
                          document_count(ID, x) < document_count(ID, y)
             lo == IF Head(terms).desc THEN s ELSE r
             hi == IF Head(terms).desc THEN r ELSE s
         IN  IF lt(lo, hi) THEN TRUE
             ELSE IF lt(hi, lo) THEN FALSE
             ELSE index_before(ID, r, s, Tail(terms))

\* The rows of the index list in the order of the ORDER BY terms.
sorted_indexes(I, ID, terms) ==
    CHOOSE seq \in [1..Cardinality(I) -> I] :
        /\ \A r \in I : \E i \in DOMAIN seq : seq[i] = r
        /\ \A i, j \in DOMAIN seq :
               i < j => index_before(ID, seq[i], seq[j], terms)

\* IndexView.list_view: the indexes, by name unless `ordering` says
\* otherwise, one page of them.
index_list(I, ID, ordering, page) ==
    LET terms == apply_sorting(ordering, {"name", "document_count", "id"},
                               "name")
        pq == paginated_query(sorted_indexes(I, ID, terms), page)
    IN  [result |-> pq] @@
        (IF pq.code = 200 THEN Ok("index_list", "", "", 0)
         ELSE NotFound("index_list", "", ""))

\* GET /?ordering=...&page=...
IndexList(ordering, page) ==
    /\ resp' = index_list(Index, IndexDocument, ordering, page)
    /\ UNCHANGED <<tables, threads, config>>

\* The server is started with --paginate-by.
ConfigurePagination(paginate_by) ==
    /\ paginate_by \in 1..1000
    /\ config' = [config EXCEPT !.PAGINATE_BY = paginate_by]
    /\ UNCHANGED <<tables, resp, threads>>

(***************************************************************************)
(* Calls of the model API (scout/models.py), as the tests make them        *)
(***************************************************************************)
\* The call that was made: the method, the index or file name, the document.
\* `caught` names the IntegrityError the call has swallowed, if any.
Called(op, arg, sub, id, caught) ==
    Response(op, arg, sub, 0, id, caught, <<>>)

\* Index.add_to_index(document)
AddToIndex(index, document) ==
    /\ index \in Index
    /\ document \in Document
    /\ IndexDocument' = add_to_index(IndexDocument, index.id, document.docid)
    /\ resp' = Called("add_to_index", index.name, "", document.docid,
                       IF IndexDocumentConflict(IndexDocument, index.id,
                                                document.docid)
                       THEN "IntegrityError" ELSE "")
    /\ UNCHANGED <<Index, Document, Metadata, Attachment, BlobData, threads,
                   config>>

\* document.metadata = map
SetMetadata(document, map) ==
    /\ document \in Document
    /\ Metadata' = set_metadata(Metadata, document.docid, map)
    /\ resp' = Called("set_metadata", "", "", document.docid, "")
    /\ UNCHANGED <<Index, Document, IndexDocument, Attachment, BlobData,
                   threads, config>>

\* del document.metadata
DeleteMetadata(document) ==
    /\ document \in Document
    /\ Metadata' = delete_metadata(Metadata, document.docid)
    /\ resp' = Called("delete_metadata", "", "", document.docid, "")
    /\ UNCHANGED <<Index, Document, IndexDocument, Attachment, BlobData,
                   threads, config>>

\* document.attach(filename, data)
Attach(document, filename, data) ==
    /\ document \in Document
    /\ BlobData' = attach_blob(BlobData, data)
    /\ Attachment' = attach_row(Attachment, document.docid, filename, data)
    /\ resp' = Called("attach", filename, data, document.docid,
                       IF BlobConflict(BlobData, SHA256_B64(data))
                       THEN "IntegrityError" ELSE "")
    /\ UNCHANGED <<Index, Document, IndexDocument, Metadata, threads, config>>

\* document.detach(filename)
Detach(document, filename) ==
    /\ document \in Document
    /\ Attachment' = detach(Attachment, document.docid, filename)
    /\ resp' = Called("detach", filename, "", document.docid, "")
    /\ UNCHANGED <<Index, Document, IndexDocument, Metadata, BlobData,
                   threads, config>>

(***************************************************************************)
(* Concurrent requests.  The handlers of AttachmentView and                 *)
(* DocumentView.update do not run in one transaction: each statement, and  *)
(* each `database.atomic()` block, commits on its own, and statements of   *)
(* other requests run between them.  A thread holds the statements its     *)
(* request has still to run.                                               *)
(***************************************************************************)
Statement(op, docid, filename, data) ==
    [op |-> op, docid |-> docid, filename |-> filename, data |-> data]

\* Mutant: the Attachment row is written before the BlobData row.
attach_statements_RowFirst(docid, filename, data) ==
    <<Statement("attachment_create", docid, secure_filename(filename), data),
      Statement("blob_create", 0, "", data)>>

\* Document.attach: BlobData.create in its atomic block, then
\* Attachment.create in its own.
attach_statements(docid, filename, data) ==
    <<Statement("blob_create", 0, "", data),
      Statement("attachment_create", docid, secure_filename(filename), data)>>

\* _FileProcessingView.attach_files: document.attach for each file.
RECURSIVE attach_files_statements(_, _)
attach_files_statements(docid, files) ==
    IF files = <<>> THEN <<>>
    ELSE attach_statements(docid, Head(files).filename, Head(files).data)
             \o attach_files_statements(docid, Tail(files))

\* Mutant: the IntegrityError of BlobData.create is not caught.
IntegrityErrorCaught_RowOnly(op) == op = "attachment_create"

\* Document.attach: the IntegrityError of each of its two inserts is caught.
IntegrityErrorCaught(op) == op \in {"blob_create", "attachment_create"}

\* The answer of a request that ended in an exception.
ServerError(error) == Response("execute", "", "", 500, 0, error, <<>>)

Pending(t) == IF t \in DOMAIN threads THEN threads[t] ELSE <<>>

Run(t, statements) ==
    IF statements = <<>>
    THEN [u \in DOMAIN threads \ {t} |-> threads[u]]
    ELSE [u \in DOMAIN threads \cup {t} |->
              IF u = t THEN statements ELSE threads[u]]

\* A request arrives on an idle thread: the handler's lookups are made and
\* the statements it goes on to run are those of `statements`.
Start(t, statements) ==
    /\ Pending(t) = <<>>
    /\ statements # <<>>
    /\ threads' = Run(t, statements)
    /\ UNCHANGED <<tables, resp, config>>

\* document.attach(filename, data)
StartAttach(t, document, filename, data) ==
    /\ document \in Document
    /\ Start(t, attach_statements(document.docid, filename, data))

\* AttachmentView.create
StartAttachmentCreate(t, document_id, files) ==
    \E document \in get_document(Document, document_id) :
        Start(t, attach_files_statements(document.docid, files))

\* AttachmentView.update: attachment.delete_instance(), then attach_files.
StartAttachmentUpdate(t, document_id, pk, files) ==
    \E document \in get_document(Document, document_id) :
        /\ get_attachment(Attachment, document.docid, pk) # {}
        /\ Len(files) = 1
        /\ Start(t, <<Statement("attachment_delete", document.docid, pk, "")>>
                        \o attach_files_statements(document.docid, files))

\* AttachmentView.delete
StartAttachmentDelete(t, document_id, pk) ==
    \E document \in get_document(Document, document_id) :
        /\ get_attachment(Attachment, document.docid, pk) # {}
        /\ Start(t, <<Statement("attachment_delete", document.docid, pk, "")>>)

\* DocumentView.update with content and files: document.save(), then
\* attach_files.
StartDocumentUpdate(t, pk, content, files) ==
    \E document \in get_document(Document, pk) :
        Start(t, <<Statement("document_save", document.docid, "", content)>>
                     \o attach_files_statements(document.docid, files))

\* DocumentView.delete: one atomic block deletes the rows of the document
\* and the document.
StartDocumentDelete(t, pk) ==
    \E document \in get_document(Document, pk) :
        Start(t, <<Statement("document_delete", document.docid, "", "")>>)

\* IndexView.create: Index.create in its atomic block, then self.detail.
StartIndexCreate(t, name) ==
    /\ Truthy(name)
    /\ Start(t, <<Statement("index_create", 0, name, ""),
                  Statement("index_detail", 0, name, "")>>)

\* The next statement of a thread runs and commits.
Execute(t) ==
    /\ Pending(t) # <<>>
    /\ LET st == Head(Pending(t))
           rest == Tail(Pending(t))
       IN  CASE st.op = "blob_create" ->
                    /\ IF /\ BlobConflict(BlobData, SHA256_B64(st.data))
                          /\ ~IntegrityErrorCaught(st.op)
                       THEN /\ threads' = Run(t, <<>>)
                            /\ resp' = ServerError("IntegrityError")
                            /\ UNCHANGED BlobData
                       ELSE /\ BlobData' = attach_blob(BlobData, st.data)
                            /\ threads' = Run(t, rest)
                            /\ UNCHANGED resp
                    /\ UNCHANGED <<Index, Document, IndexDocument, Metadata,
                                   Attachment>>
             [] st.op = "attachment_create" ->
                    \* on IntegrityError the row is fetched and saved in two
                    \* more statements
                    /\ IF AttachmentConflict(Attachment, st.docid, st.filename)
                       THEN IF IntegrityErrorCaught(st.op)
                            THEN /\ threads' = Run(t,
                                        <<Statement("attachment_save",
                                                    st.docid, st.filename,
                                                    st.data)>> \o rest)
                                 /\ UNCHANGED <<Attachment, resp>>
                            ELSE /\ threads' = Run(t, <<>>)
                                 /\ resp' = ServerError("IntegrityError")
                                 /\ UNCHANGED Attachment
                       ELSE /\ Attachment' = attach_row(Attachment, st.docid,
                                                        st.filename, st.data)
                            /\ threads' = Run(t, rest)
                            /\ UNCHANGED resp
                    /\ UNCHANGED <<Index, Document, IndexDocument, Metadata,
                                   BlobData>>
             [] st.op = "attachment_save" ->
                    \* Attachment.get raises DoesNotExist when the row has
                    \* been deleted meanwhile: the request ends there
                    /\ IF AttachmentConflict(Attachment, st.docid, st.filename)
                       THEN /\ Attachment' = attach_row(Attachment, st.docid,
                                                        st.filename, st.data)
                            /\ threads' = Run(t, rest)
                            /\ UNCHANGED resp
                       ELSE /\ threads' = Run(t, <<>>)
                            /\ resp' = ServerError("DoesNotExist")
                            /\ UNCHANGED Attachment
                    /\ UNCHANGED <<Index, Document, IndexDocument, Metadata,
                                   BlobData>>
             [] st.op = "index_create" ->
                    \* IntegrityError is answered 400
                    /\ IF IndexNameConflict(Index, 0, st.filename)
                       THEN /\ threads' = Run(t, <<>>)
                            /\ resp' = BadRequest("index_create", st.filename,
                                                  "", "already exists")
                            /\ UNCHANGED Index
                       ELSE /\ NextIndexId <= MaxIndexId
                            /\ Index' = Index \cup
                                   {IdxRow(NextIndexId, st.filename)}
                            /\ threads' = Run(t, rest)
                            /\ UNCHANGED resp
                    /\ UNCHANGED <<Document, IndexDocument, Metadata,
                                   Attachment, BlobData>>
             [] st.op = "index_detail" ->
                    /\ resp' = IF get_index(Index, st.filename) = {}
                               THEN NotFound("index_create", st.filename, "")
                               ELSE Ok("index_create", st.filename, "",
                                       (CHOOSE i \in get_index(Index,
                                            st.filename) : TRUE).id)
                    /\ threads' = Run(t, rest)
                    /\ UNCHANGED tables
             [] st.op = "attachment_delete" ->
                    /\ Attachment' = detach(Attachment, st.docid, st.filename)
                    /\ threads' = Run(t, rest)
                    /\ UNCHANGED resp
                    /\ UNCHANGED <<Index, Document, IndexDocument, Metadata,
                                   BlobData>>
             [] st.op = "document_save" ->
                    /\ Document' =
                           {IF d.docid = st.docid
                            THEN DocRow(d.docid, st.data, d.identifier)
                            ELSE d : d \in Document}
                    /\ threads' = Run(t, rest)
                    /\ UNCHANGED resp
                    /\ UNCHANGED <<Index, IndexDocument, Metadata, Attachment,
                                   BlobData>>
             [] st.op = "document_delete" ->
                    /\ IndexDocument' =
                           RemoveRows(IndexDocument,
                                      {r \in DOMAIN IndexDocument :
                                          r.document = st.docid})
                    /\ Attachment' =
                           {a \in Attachment : a.document # st.docid}
                    /\ Metadata' = delete_metadata(Metadata, st.docid)
                    /\ Document' = {d \in Document : d.docid # st.docid}
                    /\ threads' = Run(t, rest)
                    /\ UNCHANGED resp
                    /\ UNCHANGED <<Index, BlobData>>
    /\ UNCHANGED config

(***************************************************************************)
(* The state after create_tables: every table empty, no request answered.  *)
(***************************************************************************)
NoThreads == [t \in {} |-> 0]

\* app.config of a server started with the path of its database and no
\* other option: no API key, and the page size of the defaults.
DefaultConfig ==
    [HOST |-> "127.0.0.1", PORT |-> 8000, PAGINATE_BY |-> 50,
     URL_PREFIX |-> "", AUTHENTICATION |-> NULL, DEBUG |-> FALSE,
     DATABASE |-> "scout.db", PAGE_VAR |-> "page"]

Init ==
    /\ Index = {}
    /\ Document = {}
    /\ IndexDocument = NoRows
    /\ Metadata = {}
    /\ Attachment = {}
    /\ BlobData = {}
    /\ resp = Response("none", "", "", 0, 0, "", <<>>)
    /\ threads = NoThreads
    /\ config = DefaultConfig

(***************************************************************************)
(* Indexes and membership: the requests of IndexView, documents posted     *)
(* with metadata and a file, and Index.add_to_index.                       *)
(***************************************************************************)
PostedNames == IndexNames \cup {""}

IndexedBodies ==
    {Body("c1", Absent, name, NoList, Map({Entry("k1", JStr("v"))})) :
        name \in IndexNames}

NextIndex ==
    \/ \E name \in PostedNames : IndexCreate(name)
    \/ \E pk \in IndexNames, name \in PostedNames : IndexUpdate(pk, name)
    \/ \E pk \in IndexNames : IndexDelete(pk)
    \/ \E body \in IndexedBodies :
           DocumentCreate(body, <<File("f.txt", "xx")>>)
    \/ \E index \in Index, document \in Document :
           AddToIndex(index, document)

SpecIndex == Init /\ [][NextIndex]_vars

(***************************************************************************)
(* Deleting documents: documents posted with an identifier or without,     *)
(* into one index or two, each with a metadata row and a file.             *)
(***************************************************************************)
DeletedBodies ==
    {Body("c1", identifier, Absent, List(names),
          Map({Entry("k1", JStr("v"))})) :
        identifier \in {Absent, "2", "x"},
        names \in {<<"a">>, <<"a", "b">>}}

NextDelete ==
    \/ \E name \in {"a", "b"} : IndexCreate(name)
    \/ \E body \in DeletedBodies :
           DocumentCreate(body, <<File("f.txt", "xx")>>)
    \/ \E pk \in Tokens : DocumentDelete(pk)

SpecDelete == Init /\ [][NextDelete]_vars

(***************************************************************************)
(* The model API, metadata: documents posted into index "a" with one       *)
(* metadata row or none, then calls of set_metadata and delete_metadata.   *)
(***************************************************************************)
MetaMaps ==
    {{}, {Entry("k1", JStr("w"))}, {Entry("k2", JInt(3))},
     {Entry("k1", JInt(10)), Entry("k2", JStr("v"))}}

MetaBodies ==
    {Body("c1", Absent, "a", NoList, metadata) :
        metadata \in {NoMap, Map({Entry("k1", JStr("v"))})}}

NextMeta ==
    \/ IndexCreate("a")
    \/ \E body \in MetaBodies : DocumentCreate(body, <<>>)
    \/ \E document \in Document, map \in MetaMaps :
           SetMetadata(document, map)
    \/ \E document \in Document : DeleteMetadata(document)

SpecMeta == Init /\ [][NextMeta]_vars

(***************************************************************************)
(* The model API, attachments: documents posted into index "a", then calls *)
(* of attach and detach on them.                                           *)
(***************************************************************************)
AttachedNames == {"../f.txt", "g.jpg"}

NextBlob ==
    \/ IndexCreate("a")
    \/ DocumentCreate(Body("c1", Absent, "a", NoList, NoMap), <<>>)
    \/ \E document \in Document, filename \in AttachedNames,
          data \in Payloads : Attach(document, filename, data)
    \/ \E document \in Document : Detach(document, "f.txt")

SpecBlob == Init /\ [][NextBlob]_vars

(***************************************************************************)
(* Two threads serving requests on attachments and documents, one          *)
(* statement at a time, over documents posted into index "a".              *)
(***************************************************************************)
Threads == {1, 2}

NextConc ==
    \/ IndexCreate("a")
    \/ DocumentCreate(Body("c1", Absent, "a", NoList, NoMap), <<>>)
    \/ \E t \in Threads, document \in Document, data \in Payloads :
           StartAttach(t, document, "../f.txt", data)
    \/ \E t \in Threads, data \in Payloads :
           StartAttachmentCreate(t, "1", <<File("f.txt", data)>>)
    \/ \E t \in Threads, data \in Payloads :
           StartAttachmentUpdate(t, "1", "f.txt", <<File("f.txt", data)>>)
    \/ \E t \in Threads : StartAttachmentDelete(t, "1", "f.txt")
    \/ \E t \in Threads :
           StartDocumentUpdate(t, "2", "c2", <<File("f.txt", "yy")>>)
    \/ \E t \in Threads, pk \in {"1", "2"} : StartDocumentDelete(t, pk)
    \/ \E t \in Threads : Execute(t)

SpecConc == Init /\ [][NextConc]_vars

(***************************************************************************)
(* Updating documents: documents posted into index "a" with one metadata   *)
(* row and one file, and updates of content, metadata, index and files.    *)
(* No index is ever named "c".                                             *)
(***************************************************************************)
UpdatedTokens == {"1", "2"}

\* A request that changes the content also uploads a file.
UpdateRequests ==
    {[body |-> Body(content, Absent, index, NoList, metadata),
      files |-> IF content = Absent THEN <<>>
                ELSE <<File("g.jpg", "yy")>>] :
        content \in {Absent, "c2"},
        index \in {Absent, "b", "c"},
        metadata \in {NoMap, Map({}), Map({Entry("k2", JInt(3))})}}

NextUpdate ==
    \/ \E name \in {"a", "b"} : IndexCreate(name)
    \/ DocumentCreate(Body("c1", Absent, "a", NoList,
                           Map({Entry("k1", JStr("v"))})),
                      <<File("f.txt", "xx")>>)
    \/ \E pk \in UpdatedTokens, request \in UpdateRequests :
           DocumentUpdate(pk, request.body, request.files)

SpecUpdate == Init /\ [][NextUpdate]_vars

(***************************************************************************)
(* Membership: documents posted into index "a", and updates that give      *)
(* `index`, `indexes` (empty, one name, two names, a name twice) or        *)
(* neither.  Index "b" may not exist yet when a request names it.          *)
(***************************************************************************)
MemberBodies ==
    {Body(Absent, Absent, index, NoList, NoMap) : index \in {Absent, "b"}}
        \cup {Body(Absent, Absent, Absent, List(names), NoMap) :
                 names \in {<<>>, <<"a">>, <<"b", "a">>, <<"b", "b">>}}

NextMember ==
    \/ \E name \in {"a", "b"} : IndexCreate(name)
    \/ DocumentCreate(Body("c1", Absent, "a", NoList, NoMap), <<>>)
    \/ \E pk \in UpdatedTokens, body \in MemberBodies :
           DocumentUpdate(pk, body, <<>>)

SpecMember == Init /\ [][NextMember]_vars

(***************************************************************************)
(* Posting documents: with an identifier or without, with a file, naming   *)
(* indexes that exist ("a", "b" once created) and indexes that never do    *)
(* ("c", "d"), in `index` or in `indexes`, or naming none.                 *)
(***************************************************************************)
CreateIndexFields ==
    {[index |-> index, indexes |-> NoList] : index \in {Absent, "", "a", "c"}}
        \cup {[index |-> Absent, indexes |-> List(names)] :
                 names \in {<<>>, <<"b", "a">>, <<"d", "a", "c">>}}

CreateBodies ==
    {Body("c1", identifier, f.index, f.indexes, NoMap) :
        identifier \in {Absent, "x"}, f \in CreateIndexFields}

CreateFiles == <<File("f.txt", "xx")>>

NextCreate ==
    \/ \E name \in {"a", "b"} : IndexCreate(name)
    \/ \E body \in CreateBodies : DocumentCreate(body, CreateFiles)

SpecCreate == Init /\ [][NextCreate]_vars

(***************************************************************************)
(* Posting documents with identifiers: into index "a", with no identifier, *)
(* a word or digits, so that an identifier may name a document already     *)
(* posted, or be the digits of the id of another.                          *)
(***************************************************************************)
UpsertBodies ==
    {Body(content, identifier, "a", NoList, NoMap) :
        content \in {"c1", "c2"}, identifier \in {Absent, "x", "1", "2"}}

NextUpsert ==
    \/ IndexCreate("a")
    \/ \E body \in UpsertBodies : DocumentCreate(body, CreateFiles)

SpecUpsert == Init /\ [][NextUpsert]_vars

(***************************************************************************)
(* Authentication: a server started with an API key or without, and        *)
(* requests that carry a key in the header, in the query string, in both   *)
(* or in neither.                                                          *)
(***************************************************************************)
ApiKeys == {"test", "tesss"}

RequestKeys == {Absent, "", "test", "tesss"}

NextAuth ==
    \/ \E api_key \in ApiKeys : Configure(api_key)
    \/ \E header, arg \in RequestKeys, name \in {"a", "b"} :
           dispatch_request(header, arg, IndexCreate(name))
    \/ \E header, arg \in RequestKeys, name \in {"a", "b"} :
           dispatch_request(header, arg, IndexDelete(name))
    \/ \E header, arg \in RequestKeys :
           dispatch_request(header, arg,
               DocumentCreate(Body("c1", Absent, "a", NoList, NoMap), <<>>))

SpecAuth == Init /\ [][NextAuth]_vars

(***************************************************************************)
(* Searching: documents of one word, with metadata or without, posted into *)
(* index "a" or into "a" and "b", and calls of the search engine.          *)
(***************************************************************************)
SearchBodies ==
    {Body(content, Absent, Absent, List(names), metadata) :
        content \in {"c1", "c2"},
        names \in {<<"a">>, <<"a", "b">>},
        metadata \in {NoMap, Map({Entry("k1", JStr("v"))}),
                      Map({Entry("k1", JStr("w")), Entry("k2", JInt(3))})}}

BlankPhrases == {<<>>, <<" ">>, <<" ", " ">>}

Rankings == {SEARCH_BM25, SEARCH_SIMPLE, SEARCH_NONE}

Scopes == {NoScope, Scope({1}), Scope({1, 2})}

Orderings ==
    {<<>>, <<Chars("id")>>, <<<<"-">> \o Chars("score"), Chars("content")>>}

\* Filter maps, each entry with its reading: the metadata key, the
\* operation and the values it is compared with.
Case(filter, key, op, values) ==
    [filter |-> filter, key |-> key, op |-> op, values |-> values]

FilterCases ==
    {{},
     {Case(Filter(Chars("k1"), FALSE, <<Chars("v")>>), "k1", "eq", {"v"})},
     {Case(Filter(Chars("k1"), TRUE, <<Chars("v"), Chars("w")>>),
           "k1", "eq", {"v", "w"}),
      Case(Filter(Chars("k2") \o <<"_", "_">> \o Chars("ge"), FALSE,
                  <<Chars("10")>>), "k2", "ge", {"10"})},
     {Case(Filter(Chars("k1") \o <<"_", "_">> \o Chars("in"), FALSE,
                  <<<<"x", ",", " ", "w", " ", ",", "3">>>>),
           "k1", "eq", {"x", "w", "3"}),
      Case(Filter(Chars("k2") \o <<"_", "_">> \o Chars("ne"), TRUE,
                  <<Chars("3"), Chars("v")>>), "k2", "ne", {"3", "v"})},
     {Case(Filter(Chars("k2") \o <<"_", "_">> \o Chars("lt"), TRUE,
                  <<Chars("2"), Chars("10")>>), "k2", "lt", {"2", "10"})}}

FilterMaps == {{c.filter : c \in cases} : cases \in FilterCases}

\* Entries under protected keys.
ProtectedFilters ==
    {Filter(Chars("page"), FALSE, <<Chars("2")>>),
     Filter(Chars("q"), TRUE, <<Chars("c1")>>)}

\* Entries of an `ordering` list, each with its reading: the sort key it
\* names ("" when it names none) and its direction.
OrderingCase(text, key, desc) == [text |-> text, key |-> key, desc |-> desc]

OrderingCases ==
    {OrderingCase(Chars("id"), "id", FALSE),
     OrderingCase(<<"-">> \o Chars("identifier"), "identifier", TRUE),
     OrderingCase(Chars("content"), "content", FALSE),
     OrderingCase(Chars("score"), "score", FALSE),
     OrderingCase(<<"-">> \o Chars("score"), "score", TRUE),
     OrderingCase(<<"-">> \o Chars("x"), "", TRUE),
     OrderingCase(<<>>, "", FALSE)}

\* The lists of at most MaxOrdering entries.
MaxOrdering == 2

OrderingLists ==
    UNION {[1..n -> OrderingCases] : n \in 0..MaxOrdering}

\* The calls that are made: a blank phrase, a wildcard and a word.
SearchRequests ==
    {[phrase |-> phrase, index |-> index, ranking |-> SEARCH_BM25,
      ordering |-> <<>>, filters |-> filters] :
        phrase \in {<<" ">>, <<"*">>, Chars("c1")},
        index \in {NoScope, Scope({1, 2})},
        filters \in {{}, {Filter(Chars("k1"), FALSE, <<Chars("v")>>)}}}

NextSearch ==
    \/ \E name \in {"a", "b"} : IndexCreate(name)
    \/ \E body \in SearchBodies : DocumentCreate(body, <<>>)
    \/ \E r \in SearchRequests :
           Search(r.phrase, r.index, r.ranking, r.ordering, r.filters)

SpecSearch == Init /\ [][NextSearch]_vars

(***************************************************************************)
(* Searching over HTTP: GET /documents/ scoped to indexes that exist ("a", *)
(* "b" once created) and to one that never does ("c").                     *)
(***************************************************************************)
ListScopes == {<<>>, <<"a">>, <<"c">>, <<"a", "c">>, <<"b", "a">>}

ListTerms == {<<>>, Chars("c1")}

NextList ==
    \/ \E name \in {"a", "b"} : IndexCreate(name)
    \/ \E body \in SearchBodies : DocumentCreate(body, <<>>)
    \/ \E idx_list \in ListScopes, q \in ListTerms :
           DocumentList(idx_list, q, SEARCH_BM25, <<>>,
                        {Filter(Chars("page"), TRUE, <<Chars("1")>>)})

SpecList == Init /\ [][NextList]_vars

(***************************************************************************)
(* C1: Index.add_to_index(document), called from any state and any number  *)
(* of times, leaves exactly one IndexDocument row for the pair; a call     *)
(* for a pair that is a member already changes no row of any table.        *)
(***************************************************************************)
C1_AddToIndexOnce ==
    [][\A index \in Index, document \in Document :
          (resp'.op = "add_to_index" /\ AddToIndex(index, document)) =>
              /\ Copies(IndexDocument',
                        IdxDocRow(index.id, document.docid)) = 1
              /\ (Copies(IndexDocument,
                         IdxDocRow(index.id, document.docid)) >= 1
                    => UNCHANGED tables)]_vars

\* A repeated call: the insert has raised IntegrityError, one row is there.
C1_Witness ==
    /\ resp.op = "add_to_index"
    /\ resp.error = "IntegrityError"
    /\ \E index \in Index :
          /\ index.name = resp.arg
          /\ Copies(IndexDocument, IdxDocRow(index.id, resp.id)) = 1

(***************************************************************************)
(* C6: no two Index rows have the same name; POST / with a name in use and *)
(* a rename to the name of another index are answered 400 with an error    *)
(* and leave every Index and IndexDocument row as it was.                  *)
(***************************************************************************)
C6_NameInUse(name, id) == \E i \in Index : i.name = name /\ i.id # id

C6_Refused ==
    /\ resp'.code = 400
    /\ resp'.error # ""
    /\ Index' = Index
    /\ IndexDocument' = IndexDocument

C6_UniqueIndexNames ==
    /\ [](\A i, j \in Index : i.name = j.name => i = j)
    /\ [][\A name \in IndexNames :
            (/\ resp'.op = "index_create"
             /\ IndexCreate(name)
             /\ C6_NameInUse(name, 0)) => C6_Refused]_vars
    /\ [][\A pk \in IndexNames, name \in IndexNames :
            (/\ resp'.op = "index_update"
             /\ IndexUpdate(pk, name)
             /\ \E index \in get_index(Index, pk) :
                    C6_NameInUse(name, index.id)) => C6_Refused]_vars

\* A rename to the name of another index has been refused.
C6_Witness ==
    /\ resp.op = "index_update"
    /\ resp.code = 400
    /\ resp.error = "already in use"
    /\ \E i, j \in Index : i.name = resp.arg /\ j.name = resp.sub /\ i # j

(***************************************************************************)
(* C8: DELETE /<name>/ removes the Index row and exactly the IndexDocument *)
(* rows of that index; every other row of every table stays, so a document *)
(* that was only in that index is still there, in no index.                *)
(***************************************************************************)
C8_IndexDeleteFrame ==
    [][\A pk \in IndexNames :
          \A index \in get_index(Index, pk) :
              (resp'.op = "index_delete" /\ IndexDelete(pk)) =>
                  /\ Index' = Index \ {index}
                  /\ DOMAIN IndexDocument' =
                         {r \in DOMAIN IndexDocument : r.index # index.id}
                  /\ \A r \in DOMAIN IndexDocument' :
                         IndexDocument'[r] = IndexDocument[r]
                  /\ UNCHANGED <<Document, Metadata, Attachment, BlobData>>
                  /\ resp'.code = 200]_vars

\* An index was deleted; a document belongs to no index and keeps its
\* metadata and attachment, and a row of another index is still there.
C8_Witness ==
    /\ resp.op = "index_delete"
    /\ resp.code = 200
    /\ \E d \in Document :
          /\ get_indexes(IndexDocument, d.docid) = {}
          /\ get_metadata(Metadata, d.docid) # {}
          /\ \E a \in Attachment : a.document = d.docid
    /\ DOMAIN IndexDocument # {}

(***************************************************************************)
(* C9: a rename to an unused name changes the name of that Index row and   *)
(* nothing else: same id, same member documents, the old name is a 404     *)
(* and the new name finds the same index.                                  *)
(***************************************************************************)
C9_RenameFrame ==
    [][\A pk \in IndexNames, name \in IndexNames :
          \A index \in get_index(Index, pk) :
              (/\ resp'.op = "index_update"
               /\ IndexUpdate(pk, name)
               /\ ~C6_NameInUse(name, index.id)) =>
                  /\ resp'.code = 200
                  /\ resp'.id = index.id
                  /\ {i.id : i \in Index'} = {i.id : i \in Index}
                  /\ \A i \in Index : i # index => i \in Index'
                  /\ get_index(Index', name) = {IdxRow(index.id, name)}
                  /\ (name # pk => get_index(Index', pk) = {})
                  /\ index_documents(IndexDocument', index.id) =
                         index_documents(IndexDocument, index.id)
                  /\ UNCHANGED <<Document, IndexDocument, Metadata,
                                 Attachment, BlobData>>]_vars

\* An index that has a member document was renamed.
C9_Witness ==
    /\ resp.op = "index_update"
    /\ resp.code = 200
    /\ resp.arg # resp.sub
    /\ get_index(Index, resp.arg) = {}
    /\ \E index \in get_index(Index, resp.sub) :
          /\ index.id = resp.id
          /\ index_documents(IndexDocument, index.id) # {}

(***************************************************************************)
(* C2: DELETE /documents/<pk>/ removes the Document row and exactly the    *)
(* IndexDocument, Metadata and Attachment rows of that document; the rows  *)
(* of other documents and every Index row stay.  As claimed, a second      *)
(* DELETE of the same URL is answered 404.                                 *)
(***************************************************************************)
C2_DeleteFrame ==
    \A pk \in Tokens :
        \A document \in get_document(Document, pk) :
            (/\ resp'.op = "document_delete"
             /\ resp'.id = document.docid
             /\ DocumentDelete(pk)) =>
                /\ resp'.code = 200
                /\ Document' = Document \ {document}
                /\ DOMAIN IndexDocument' =
                       {r \in DOMAIN IndexDocument :
                            r.document # document.docid}
                /\ \A r \in DOMAIN IndexDocument' :
                       IndexDocument'[r] = IndexDocument[r]
                /\ Metadata' =
                       {m \in Metadata : m.document # document.docid}
                /\ Attachment' =
                       {a \in Attachment : a.document # document.docid}
                /\ UNCHANGED <<Index, BlobData>>

\* The same URL is deleted twice in a row.
C2_SecondDelete ==
    /\ resp.op = "document_delete"
    /\ resp.code = 200
    /\ resp'.op = "document_delete"
    /\ resp'.arg = resp.arg

\* The claim as it was made: the second DELETE is always a 404.
C2_DeleteThen404 ==
    [][/\ C2_DeleteFrame
       /\ (C2_SecondDelete => resp'.code = 404)]_vars

\* C2 as amended: the second DELETE is a 404 unless the token is also the
\* identifier of a document that is left, which it then deletes.
C2_DeleteThen404UnlessIdentifier ==
    [][/\ C2_DeleteFrame
       /\ (C2_SecondDelete =>
              IF \E d \in Document : d.identifier = resp.arg
              THEN resp'.code = 200 /\ resp'.id # resp.id
              ELSE resp'.code = 404 /\ UNCHANGED tables)]_vars

\* A document was deleted and another one is left with its rows.
C2_Witness ==
    /\ resp.op = "document_delete"
    /\ resp.code = 200
    /\ \E d \in Document :
          /\ d.docid # resp.id
          /\ get_indexes(IndexDocument, d.docid) # {}
          /\ get_metadata(Metadata, d.docid) # {}
          /\ \E a \in Attachment : a.document = d.docid
    /\ \A m \in Metadata : m.document # resp.id
    /\ \A a \in Attachment : a.document # resp.id

(***************************************************************************)
(* C7: a document update that is answered with an error, such as the 400   *)
(* for an index that does not exist, leaves the document's content,        *)
(* identifier, metadata, attachments and index membership as they were.    *)
(***************************************************************************)
C7_UpdateAllOrNothing ==
    [][(resp'.op = "document_update" /\ resp'.code >= 400) =>
           UNCHANGED <<Document, Metadata, Attachment, IndexDocument>>]_vars

(***************************************************************************)
(* C10: after a document update whose body has `metadata`, the metadata of *)
(* the document is that map (values in their string form) and nothing      *)
(* else, none for null or an empty map; without the key it is unchanged.   *)
(* The metadata of other documents is never changed.                       *)
(***************************************************************************)
C10_Expected(body, docid) ==
    IF body.metadata.has
    THEN {Entry(e.key, StrOf(e.value)) : e \in body.metadata.val}
    ELSE get_metadata(Metadata, docid)

C10_UpdateMetadata ==
    \A pk \in UpdatedTokens, request \in UpdateRequests :
        \A document \in get_document(Document, pk) :
            LET result == update_result("document_update", pk, request.body,
                                        request.files, document)
            IN  /\ get_metadata(result.Metadata, document.docid) =
                       C10_Expected(request.body, document.docid)
                /\ {m \in result.Metadata : m.document # document.docid} =
                       {m \in Metadata : m.document # document.docid}

\* An update has replaced {k1: v} by {k2: 3}; another document keeps k1.
C10_Witness ==
    /\ resp.op = "document_update"
    /\ resp.code = 200
    /\ get_metadata(Metadata, resp.id) = {Entry("k2", "3")}
    /\ \E d \in Document :
          /\ d.docid # resp.id
          /\ get_metadata(Metadata, d.docid) = {Entry("k1", "v")}

(***************************************************************************)
(* C3: for every document D and whatever metadata D held before, after     *)
(* set_metadata(D, M) get_metadata(D) is exactly the map of each key of M  *)
(* to the string form of its value: keys held before and absent from M are *)
(* gone, and an empty M leaves D without metadata.                         *)
(***************************************************************************)
C3_StrMap(map) == {Entry(e.key, StrOf(e.value)) : e \in map}

C3_SetMetadataReplaces ==
    [][\A document \in Document, map \in MetaMaps :
          (resp'.op = "set_metadata" /\ SetMetadata(document, map)) =>
              get_metadata(Metadata', document.docid) = C3_StrMap(map)]_vars

(***************************************************************************)
(* C3, as the code has it: after set_metadata(D, M) get_metadata(D) maps   *)
(* each key of M to the string form of its value and keeps every key held  *)
(* before and absent from M with its previous value; an empty M leaves the *)
(* metadata of D as it was.  The rows of other documents are unchanged.    *)
(***************************************************************************)
C3_Kept(docid, map) ==
    {e \in get_metadata(Metadata, docid) : \A n \in map : n.key # e.key}

C3_SetMetadataUpserts ==
    [][\A document \in Document, map \in MetaMaps :
          (resp'.op = "set_metadata" /\ SetMetadata(document, map)) =>
              /\ get_metadata(Metadata', document.docid) =
                     C3_StrMap(map) \cup C3_Kept(document.docid, map)
              /\ map = {} => Metadata' = Metadata
              /\ {m \in Metadata' : m.document # document.docid} =
                     {m \in Metadata : m.document # document.docid}]_vars

\* set_metadata has been called on a document that held "k1" with a map
\* that has "k2" only: the document holds both keys, "k2" as the string "3".
C3_Witness ==
    /\ resp.op = "set_metadata"
    /\ \E document \in Document :
           /\ resp.id = document.docid
           /\ get_metadata(Metadata, document.docid) =
                  {Entry("k1", "v"), Entry("k2", "3")}

(***************************************************************************)
(* C5: after attach(doc, name, B) the BlobData row keyed by the base64     *)
(* SHA-256 of B reads back equal to B; attaching a payload the store holds *)
(* adds no BlobData row, whatever the document and the file name, so the   *)
(* store holds one blob row per distinct payload.                          *)
(***************************************************************************)
C5_Payloads(B) == {decompress(b.data) : b \in B}

C5_BlobRoundTrip ==
    [][\A document \in Document, filename \in AttachedNames,
          data \in Payloads :
          (/\ resp'.op = "attach"
           /\ resp'.sub = data
           /\ Attach(document, filename, data)) =>
              /\ blob_data(BlobData', SHA256_B64(data)) = {data}
              /\ data \in C5_Payloads(BlobData) => BlobData' = BlobData
              /\ Cardinality(BlobData') = Cardinality(C5_Payloads(BlobData'))
              /\ \A b \in BlobData' :
                     b.hash = SHA256_B64(decompress(b.data))]_vars

\* The payload "xx" is attached to two documents, under two file names on
\* one of them, and the last attach met the blob row of an earlier one: the
\* store holds one row for "xx".
C5_Witness ==
    /\ resp.op = "attach"
    /\ resp.sub = "xx"
    /\ resp.error = "IntegrityError"
    /\ \E a1, a2, a3 \in Attachment :
           /\ a1.document # a2.document
           /\ a2.document = a3.document
           /\ a2.filename # a3.filename
           /\ \A a \in {a1, a2, a3} : a.hash = SHA256_B64("xx")
    /\ Cardinality({b \in BlobData : b.hash = SHA256_B64("xx")}) = 1

(***************************************************************************)
(* C4: in every committed state, under any interleaving of attach,         *)
(* attachment replace, attachment delete, document update with files and   *)
(* document delete, every Attachment row has a BlobData row whose hash is  *)
(* the hash of the attachment.                                             *)
(***************************************************************************)
C4_AttachmentHasBlob ==
    \A a \in Attachment : \E b \in BlobData : b.hash = a.hash

\* Two requests are under way, one of them about to write an Attachment
\* row for a payload whose blob is stored, while attachments of both
\* payloads exist.
C4_Witness ==
    /\ \E t, u \in Threads :
           /\ t # u
           /\ Pending(t) # <<>>
           /\ Head(Pending(t)).op = "attachment_create"
           /\ BlobConflict(BlobData, SHA256_B64(Head(Pending(t)).data))
           /\ Pending(u) # <<>>
    /\ {a.hash : a \in Attachment} = {SHA256_B64(data) : data \in Payloads}

(***************************************************************************)
(* C11: a document update whose body gives `index` or `indexes` naming     *)
(* existing indexes leaves the document a member of exactly those indexes, *)
(* one row each; an empty `indexes` list leaves it in no index; with       *)
(* neither key its membership is unchanged.  The rows of the document are  *)
(* deleted and inserted in one step, and the membership of every other     *)
(* document is unchanged.                                                  *)
(***************************************************************************)
C11_Names(body) ==
    IF body.index # Absent THEN {body.index} ELSE Range(body.indexes.val)

C11_Others(ID, docid) ==
    [r \in {x \in DOMAIN ID : x.document # docid} |-> ID[r]]

C11_MembershipReplaced ==
    \A pk \in UpdatedTokens, body \in MemberBodies :
        \A document \in get_document(Document, pk) :
            LET result == update_result("document_update", pk, body, <<>>,
                                        document)
                docid == document.docid
                named == {i \in Index : i.name \in C11_Names(body)}
            IN  /\ (/\ C11_Names(body) # {}
                    /\ C11_Names(body) \subseteq {i.name : i \in Index}) =>
                       /\ get_indexes(result.IndexDocument, docid) =
                              {i.id : i \in named}
                       /\ \A i \in named :
                              Copies(result.IndexDocument,
                                     IdxDocRow(i.id, docid)) = 1
                       /\ result.resp.code = 200
                /\ (body.index = Absent /\ body.indexes = List(<<>>)) =>
                       get_indexes(result.IndexDocument, docid) = {}
                /\ (body.index = Absent /\ body.indexes = NoList) =>
                       result.IndexDocument = IndexDocument
                /\ C11_Others(result.IndexDocument, docid) =
                       C11_Others(IndexDocument, docid)

\* Two documents were posted into "a"; an update has moved document 1 to
\* "b" alone while document 2 is still in "a".
C11_Witness ==
    /\ resp.op = "document_update"
    /\ resp.code = 200
    /\ resp.id = 1
    /\ \E a, b \in Index :
           /\ a.name = "a"
           /\ b.name = "b"
           /\ get_indexes(IndexDocument, 1) = {b.id}
           /\ get_indexes(IndexDocument, 2) = {a.id}

(***************************************************************************)
(* C12: POST /documents/ that names no index (neither key, or an empty     *)
(* one), or that names an index that does not exist, is answered 400; for  *)
(* unknown names the error lists exactly the unknown names in the order of *)
(* the request; in both cases no row of any table is created.              *)
(***************************************************************************)
C12_Names(body) ==
    IF Truthy(body.index) THEN <<body.index>> ELSE body.indexes.val

C12_Unknown(body) ==
    SelectSeq(C12_Names(body), LAMBDA n : \A i \in Index : i.name # n)

C12_CreateNeedsIndexes ==
    [][\A body \in CreateBodies :
          (resp'.op = "document_create" /\ DocumentCreate(body, CreateFiles)) =>
              /\ C12_Names(body) = <<>> =>
                     /\ resp'.code = 400
                     /\ resp'.missing = <<>>
                     /\ UNCHANGED tables
              /\ C12_Unknown(body) # <<>> =>
                     /\ resp'.code = 400
                     /\ resp'.missing = C12_Unknown(body)
                     /\ UNCHANGED tables]_vars

\* With index "a" and a document in place, a POST naming "d", "a", "c" has
\* been refused with the names "d", "c".
C12_Witness ==
    /\ resp.op = "document_create"
    /\ resp.code = 400
    /\ resp.missing = <<"d", "c">>
    /\ \E i \in Index : i.name = "a"
    /\ Document # {}

(***************************************************************************)
(* C13: a POST /documents/ that is served and whose `identifier` is the    *)
(* identifier of an existing document creates no Document row, answers     *)
(* with that document and gives it the posted content; a POST whose        *)
(* identifier is the identifier of no document creates exactly one new     *)
(* document.                                                               *)
(***************************************************************************)
C13_Holders(body) ==
    {d \in Document : Truthy(body.identifier) /\ d.identifier = body.identifier}

C13_IdentifierIsUpdate ==
    [][\A body \in UpsertBodies :
          (/\ resp'.op = "document_create"
           /\ resp'.code = 200
           /\ DocumentCreate(body, CreateFiles)) =>
              IF C13_Holders(body) # {}
              THEN /\ Cardinality(Document') = Cardinality(Document)
                   /\ resp'.id \in {d.docid : d \in C13_Holders(body)}
                   /\ \E d \in Document' :
                          d.docid = resp'.id /\ d.content = body.content
              ELSE /\ Cardinality(Document') = Cardinality(Document) + 1
                   /\ resp'.id \notin {d.docid : d \in Document}]_vars

(***************************************************************************)
(* C14: with a configured API key a request is served if and only if the   *)
(* configured key equals the value of its `key` header or the value of its *)
(* `key` query parameter; every other request is answered 401 "Invalid API *)
(* key" before any handler code runs; with no configured key every request *)
(* is served.                                                              *)
(***************************************************************************)
C14_Configured == config.AUTHENTICATION \notin {NULL, ""}

C14_Served == resp'.code # 401

C14_Refused ==
    /\ resp'.code = 401
    /\ resp'.error = "Invalid API key"
    /\ UNCHANGED tables

C14_Requests(header, arg) ==
    \/ \E name \in {"a", "b"} :
           dispatch_request(header, arg, IndexCreate(name))
    \/ \E name \in {"a", "b"} :
           dispatch_request(header, arg, IndexDelete(name))

C14_KeyInHeaderOrQuery ==
    [][\A header, arg \in RequestKeys :
          C14_Requests(header, arg) =>
              IF C14_Configured
              THEN /\ C14_Served <=> \/ config.AUTHENTICATION = header
                                     \/ config.AUTHENTICATION = arg
                   /\ ~C14_Served => C14_Refused
              ELSE C14_Served]_vars

(***************************************************************************)
(* C14, as the code has it: with a configured API key a request is served  *)
(* if and only if the configured key equals the value of its `key` header  *)
(* when the header is given and non-empty, and otherwise equals the value  *)
(* of its `key` query parameter; every other request is answered 401       *)
(* "Invalid API key" and no table is written; with no configured key every *)
(* request is served.                                                      *)
(***************************************************************************)
C14_HeaderThenQuery ==
    [][\A header, arg \in RequestKeys :
          C14_Requests(header, arg) =>
              IF C14_Configured
              THEN /\ C14_Served <=>
                          config.AUTHENTICATION =
                              (IF Given(header) THEN header ELSE arg)
                   /\ ~C14_Served => C14_Refused
              ELSE C14_Served]_vars

\* The server has the key "test"; an index was created by a request that
\* was served, and the last request was refused.
C14_Witness ==
    /\ config.AUTHENTICATION = "test"
    /\ resp.code = 401
    /\ Index # {}

C17_Passes(docid, cases) ==
    \A c \in cases :
        \E m \in Metadata :
            /\ m.document = docid
            /\ m.key = c.key
            /\ \E value \in c.values :
                   apply_op(Chars(c.op), Chars(m.value), Chars(value))

C17_FiltersAndOfOrs ==
    \A cases \in FilterCases, index \in Scopes :
        LET result == search(<<"*">>, index, SEARCH_NONE, <<>>,
                             {c.filter : c \in cases})
        IN  /\ result.raised = ""
            /\ DOMAIN result.documents =
                   {d.docid : d \in
                       {x \in Document :
                           /\ C17_Passes(x.docid, cases)
                           /\ index.given =>
                                  get_indexes(IndexDocument, x.docid)
                                      \cap index.ids # {}}}

\* Three documents are indexed: one without metadata, one with k1 = "v" and
\* one with k1 = "w" and k2 = "3"; the last search was filtered on k1.
C17_Witness ==
    /\ resp.op = "search"
    /\ resp.result.raised = ""
    /\ \E d1, d2 \in Document :
           /\ get_metadata(Metadata, d1.docid) = {Entry("k1", "v")}
           /\ get_metadata(Metadata, d2.docid) =
                  {Entry("k1", "w"), Entry("k2", "3")}
           /\ d1.docid \in DOMAIN resp.result.documents
           /\ d2.docid \notin DOMAIN resp.result.documents

(***************************************************************************)
(* C16: a search with phrase `*`, an index scope S and metadata filters F  *)
(* returns exactly the documents that are members of S and whose metadata  *)
(* satisfies F, whatever their content: no MATCH predicate is applied, no  *)
(* document is returned twice, and the search is unranked (no score).      *)
(***************************************************************************)
C16_InScope(docid, index) ==
    index.given => get_indexes(IndexDocument, docid) \cap index.ids # {}

C16_WildcardSearch ==
    \A phrase \in {<<"*">>, <<" ", "*", " ">>}, cases \in FilterCases,
       index \in Scopes, ranking \in Rankings :
        LET result == search(phrase, index, ranking, <<>>,
                             {c.filter : c \in cases})
        IN  /\ result.raised = ""
            /\ DOMAIN result.documents =
                   {d.docid : d \in
                       {x \in Document :
                           /\ C17_Passes(x.docid, cases)
                           /\ C16_InScope(x.docid, index)}}
            /\ \A docid \in DOMAIN result.documents :
                   result.documents[docid] = 1
            /\ ~result.score

(***************************************************************************)
(* C18: a filter entry whose key is one of page, q, key, ranking,          *)
(* identifier, index, ordering is never compiled into a metadata           *)
(* predicate: the result of a search is the same as if the entry were      *)
(* absent, also when it is passed to the engine with metadata filters.     *)
(***************************************************************************)
C18_ProtectedKeysIgnored ==
    \A filters \in FilterMaps, protected \in ProtectedFilters,
       index \in Scopes :
        search(<<"*">>, index, SEARCH_NONE, <<>>, filters \cup {protected}) =
            search(<<"*">>, index, SEARCH_NONE, <<>>, filters)

(***************************************************************************)
(* C19: GET /documents/?index=<name> with a name that no index has, alone  *)
(* or with names of existing indexes, is answered 400 with an error that   *)
(* lists the missing names; no result set over the existing names is       *)
(* returned.                                                               *)
(***************************************************************************)
C19_Missing(idx_list) ==
    SelectSeq(idx_list, LAMBDA n : \A i \in Index : i.name # n)

C19_UnknownScopeRefused ==
    [][\A idx_list \in ListScopes, q \in ListTerms :
          (/\ resp'.op = "document_list"
           /\ DocumentList(idx_list, q, SEARCH_BM25, <<>>,
                           {Filter(Chars("page"), TRUE, <<Chars("1")>>)})
           /\ C19_Missing(idx_list) # <<>>
           /\ Document # {}) =>
              /\ resp'.code = 400
              /\ resp'.missing = C19_Missing(idx_list)]_vars

\* Ordered searches over the documents of one index.
OrderBodies ==
    {Body(content, identifier, Absent, List(<<"a">>), NoMap) :
        content \in {"c1", "c2"}, identifier \in {Absent, "x"}}

OrderRequests ==
    {[phrase |-> phrase, ranking |-> ranking, ordering |-> ordering] :
        phrase \in {<<"*">>, Chars("c1")},
        ranking \in {SEARCH_BM25, SEARCH_NONE},
        ordering \in {<<>>, <<<<"-">> \o Chars("id")>>,
                      <<<<"-">> \o Chars("score"), Chars("x"),
                        Chars("content")>>}}

NextOrder ==
    \/ IndexCreate("a")
    \/ \E body \in OrderBodies : DocumentCreate(body, <<>>)
    \/ \E r \in OrderRequests :
           Search(r.phrase, NoScope, r.ranking, r.ordering, {})

SpecOrder == Init /\ [][NextOrder]_vars

(***************************************************************************)
(* C20: the sort keys of a search are the recognized entries of `ordering` *)
(* in their order, descending when prefixed with `-`; id, identifier and   *)
(* content are recognized, and score only when the search is ranked (the   *)
(* phrase is not `*` and the ranking is not none); other entries are       *)
(* dropped without error; when none is recognized the one sort key is      *)
(* score ascending for a ranked search and id ascending otherwise.         *)
(***************************************************************************)
C20_Recognized(ranked) ==
    IF ranked THEN {"id", "identifier", "content", "score"}
    ELSE {"id", "identifier", "content"}

C20_Terms(cases, ranked) ==
    LET kept == SelectSeq(cases, LAMBDA c : c.key \in C20_Recognized(ranked))
    IN  IF kept = <<>>
        THEN <<[key |-> IF ranked THEN "score" ELSE "id", desc |-> FALSE]>>
        ELSE [i \in DOMAIN kept |->
                 [key |-> kept[i].key, desc |-> kept[i].desc]]

C20_OrderingApplied ==
    \A phrase \in {<<"*">>, Chars("c1")}, ranking \in Rankings,
       cases \in OrderingLists :
        LET result == search(phrase, NoScope, ranking,
                             [i \in DOMAIN cases |-> cases[i].text], {})
            ranked == phrase # <<"*">> /\ ranking # SEARCH_NONE
        IN  /\ result.raised = ""
            /\ result.score = ranked
            /\ result.order_by = C20_Terms(cases, ranked)

\* A ranked search over indexed documents was ordered by "-score", "x",
\* "content": by score descending, then by content.
C20_Witness ==
    /\ resp.op = "search"
    /\ resp.result.raised = ""
    /\ resp.result.score
    /\ resp.result.order_by =
           <<[key |-> "score", desc |-> TRUE],
             [key |-> "content", desc |-> FALSE]>>
    /\ resp.result.documents # NoRows

(***************************************************************************)
(* Pagination: a server started with a page size of one or two, indexes    *)
(* created in any order of their names, and the index list asked for by    *)
(* page.                                                                   *)
(***************************************************************************)
PageSizes == {1, 2}

PageOrderings == {<<>>, <<<<"-">> \o Chars("name")>>, <<Chars("id")>>}

PageArgs == {Absent, <<"0">>, <<"1">>, <<"2">>, <<"3">>, <<"x">>}

NextPage ==
    \/ \E paginate_by \in PageSizes : ConfigurePagination(paginate_by)
    \/ \E name \in {"a", "b", "c"} : IndexCreate(name)
    \/ \E ordering \in PageOrderings, page \in PageArgs :
           IndexList(ordering, page)

SpecPage == Init /\ [][NextPage]_vars

(***************************************************************************)
(* C21: a result of n rows with page size p has ceil(n / p) pages; page k  *)
(* (from 1, the default) holds the rows at positions (k-1)*p+1 to          *)
(* min(k*p, n) of the ordered result, so the pages partition it; a page    *)
(* beyond the last is answered 200 with an empty list.                     *)
(***************************************************************************)
C21_Rows(ordering) ==
    sorted_indexes(Index, IndexDocument,
                   apply_sorting(ordering, {"name", "document_count", "id"},
                                 "name"))

C21_Ceil(n, p) == CHOOSE m \in 0..n : m * p >= n /\ (m = 0 \/ (m - 1) * p < n)

C21_Slice(rows, k, p) ==
    LET n == Len(rows)
        last == IF k * p < n THEN k * p ELSE n
    IN  [i \in 1..(last - (k - 1) * p) |-> rows[(k - 1) * p + i]]

C21_Pagination ==
    \A ordering \in PageOrderings :
        LET rows == C21_Rows(ordering)
            p == config.PAGINATE_BY
            pages == C21_Ceil(Len(rows), p)
            answer(page) ==
                index_list(Index, IndexDocument, ordering, page)
        IN  /\ \A k \in 1..(pages + 2) :
                   /\ answer(<<Digits[k + 1]>>).code = 200
                   /\ answer(<<Digits[k + 1]>>).result =
                          Page(200, C21_Slice(rows, k, p), k, pages)
            /\ answer(Absent) = answer(<<"1">>)

\* The second of two pages was asked for and holds a row.
C21_Witness ==
    /\ resp.op = "index_list"
    /\ resp.code = 200
    /\ resp.result.page = 2
    /\ resp.result.pages = 2
    /\ resp.result.rows # <<>>

(***************************************************************************)
(* C22: a document has at most one Attachment row per normalized file      *)
(* name.  Attaching under a name the document has adds no row and gives    *)
(* that row the hash and the mimetype of the new payload, so the           *)
(* attachment reads back the new bytes; the other attachments of the       *)
(* document and those of other documents are unchanged.                    *)
(***************************************************************************)
C22_Rows(A, docid, name) == {a \in A : a.document = docid /\ a.filename = name}

C22_OneRowPerFilename ==
    [][/\ \A a, b \in Attachment' :
              (a.document = b.document /\ a.filename = b.filename) => a = b
       /\ \A document \in Document, filename \in AttachedNames,
             data \in Payloads :
              (/\ resp'.op = "attach"
               /\ resp'.arg = filename
               /\ resp'.sub = data
               /\ resp'.id = document.docid
               /\ Attach(document, filename, data)) =>
                  LET name == IF filename = "../f.txt" THEN "f.txt"
                              ELSE filename
                      docid == document.docid
                  IN  /\ C22_Rows(Attachment, docid, name) # {} =>
                             Cardinality(Attachment') = Cardinality(Attachment)
                      /\ Cardinality(C22_Rows(Attachment', docid, name)) = 1
                      /\ \A a \in C22_Rows(Attachment', docid, name) :
                             /\ a.hash = SHA256_B64(data)
                             /\ a.mimetype = guess_mimetype(name)
                             /\ blob_data(BlobData', a.hash) = {data}
                      /\ Attachment' \ C22_Rows(Attachment', docid, name) =
                             Attachment \ C22_Rows(Attachment, docid, name)]_vars

\* "yy" was attached to a document under a file name that held "xx"; the
\* document has another attachment, and so has another document.
C22_Witness ==
    /\ resp.op = "attach"
    /\ resp.arg = "../f.txt"
    /\ resp.sub = "yy"
    /\ \E b \in BlobData : b.hash = SHA256_B64("xx")
    /\ \E a, b, c \in Attachment :
           /\ a.document = resp.id /\ a.filename = "f.txt"
           /\ a.hash = SHA256_B64("yy")
           /\ b.document = resp.id /\ b.filename = "g.jpg"
           /\ c.document # resp.id /\ c.filename = "f.txt"
           /\ c.hash = SHA256_B64("xx")

(***************************************************************************)
(* The requests on attachments, each run to completion: a document posted  *)
(* with or without a file, files posted to it, an attachment replaced by   *)
(* no file, one file or two, attachments and the document deleted, and     *)
(* Document.detach.                                                        *)
(***************************************************************************)
UploadNames == {"f.txt", "g.jpg"}

Uploads ==
    {<<>>, <<File("f.txt", "xx"), File("g.jpg", "yy")>>} \cup
    {<<File(filename, data)>> : filename \in UploadNames, data \in Payloads}

NextAttach ==
    \/ IndexCreate("a")
    \/ \E files \in {<<>>, <<File("f.txt", "xx")>>} :
           DocumentCreate(Body("c1", Absent, "a", NoList, NoMap), files)
    \/ \E files \in Uploads : AttachmentCreate("1", files)
    \/ \E pk \in UploadNames, files \in Uploads :
           AttachmentUpdate("1", pk, files)
    \/ \E pk \in UploadNames : AttachmentDelete("1", pk)
    \/ \E document \in Document : Detach(document, "g.jpg")
    \/ DocumentDelete("1")

SpecAttach == Init /\ [][NextAttach]_vars

(***************************************************************************)
(* C23: no operation deletes or rewrites a BlobData row: detach, DELETE of *)
(* an attachment, replacement of an attachment and DELETE of a document    *)
(* leave the rows of BlobData as they are, so the set of rows only grows,  *)
(* also when the last attachment of a blob is removed.                     *)
(***************************************************************************)
C23_BlobDataOnlyGrows ==
    [][/\ BlobData \subseteq BlobData'
       /\ resp'.op \in {"detach", "attachment_delete", "document_delete"} =>
              BlobData' = BlobData]_vars

\* An attachment was deleted and the blob it held is referenced by no
\* attachment any more, and is still stored.
C23_Witness ==
    /\ resp.op = "attachment_delete"
    /\ resp.code = 200
    /\ \E b \in BlobData : \A a \in Attachment : a.hash # b.hash

(***************************************************************************)
(* C24: POST/PUT to the detail URL of an attachment F of document D with   *)
(* exactly one file replaces the content of F: afterwards D has an         *)
(* attachment named F whose bytes are the uploaded bytes, D has the same   *)
(* attachment file names as before, and the answer is the detail of F.     *)
(* With no file or more than one the answer is 400 and F is unchanged.     *)
(***************************************************************************)
C24_Filenames(A, docid) == {a.filename : a \in {r \in A : r.document = docid}}

C24_ReplaceAttachment ==
    [][\A pk \in UploadNames, files \in Uploads :
          (/\ resp'.op = "attachment_update"
           /\ resp'.sub = pk
           /\ \E document \in get_document(Document, "1") :
                  get_attachment(Attachment, document.docid, pk) # {}
           /\ AttachmentUpdate("1", pk, files)) =>
              LET docid == (CHOOSE d \in get_document(Document, "1") :
                                TRUE).docid
              IN  IF Len(files) = 1
                  THEN /\ resp'.code = 200
                       /\ resp'.id = docid
                       /\ C24_Filenames(Attachment', docid) =
                              C24_Filenames(Attachment, docid)
                       /\ \A a \in get_attachment(Attachment', docid, pk) :
                              blob_data(BlobData', a.hash) = {files[1].data}
                  ELSE /\ resp'.code = 400
                       /\ Attachment' = Attachment
                       /\ BlobData' = BlobData]_vars

(***************************************************************************)
(* Document tokens: documents posted with a file and with an identifier,   *)
(* one of them the primary key of another document, and every endpoint     *)
(* with a document token in its path asked for by key and by identifier.   *)
(***************************************************************************)
TokenBodies ==
    {Body("c1", identifier, "a", NoList, NoMap) :
        identifier \in {Absent, "x", "2"}}

PathTokens == {"1", "2", "x"}

NextToken ==
    \/ IndexCreate("a")
    \/ \E body \in TokenBodies : DocumentCreate(body, <<File("f.txt", "xx")>>)
    \/ \E pk \in PathTokens : DocumentDetail(pk)
    \/ \E pk \in PathTokens :
           DocumentUpdate(pk, Body("c2", Absent, Absent, NoList, NoMap), <<>>)
    \/ \E pk \in PathTokens : DocumentDelete(pk)
    \/ \E pk \in PathTokens : AttachmentDetail(pk, "f.txt")
    \/ \E pk \in PathTokens : AttachmentCreate(pk, <<File("f.txt", "yy")>>)
    \/ \E pk \in PathTokens :
           AttachmentUpdate(pk, "f.txt", <<File("f.txt", "yy")>>)
    \/ \E pk \in PathTokens : AttachmentDelete(pk, "f.txt")
    \/ \E pk \in PathTokens : AttachmentDownload(pk, "f.txt")

SpecToken == Init /\ [][NextToken]_vars

(***************************************************************************)
(* C25: every endpoint with a document token t in its path resolves t the  *)
(* same way: the document with primary key t when t is all digits and      *)
(* that document exists, otherwise the document whose identifier is t, and *)
(* 404 when there is neither.                                              *)
(***************************************************************************)
C25_Endpoints ==
    {"document_detail", "document_update", "document_delete",
     "attachment_detail", "attachment_create", "attachment_update",
     "attachment_delete", "attachment_download"}

C25_Resolve(t) ==
    IF t \in {"1", "2", "3"} /\ \E d \in Document : IntToStr(d.docid) = t
    THEN {d \in Document : IntToStr(d.docid) = t}
    ELSE {d \in Document : d.identifier = t}

C25_TokenResolution ==
    [][resp'.op \in C25_Endpoints =>
          LET documents == C25_Resolve(resp'.arg)
          IN  /\ documents = {} => resp'.code = 404
              /\ resp'.code = 200 =>
                     resp'.id \in {d.docid : d \in documents}
              /\ (/\ documents # {}
                  /\ resp'.sub # "" => \A d \in documents :
                         get_attachment(Attachment, d.docid, resp'.sub) # {})
                  => resp'.code # 404]_vars

(***************************************************************************)
(* Configuration: servers started with and without a config file, the      *)
(* SCOUT_DATABASE variable, flags and a database argument, and the index   *)
(* list served under the configuration in effect.                          *)
(***************************************************************************)
ConfigFiles ==
    {<<>>,
     [AUTHENTICATION |-> "tesss", DEBUG |-> TRUE],
     [HOST |-> "10.0.0.1", PORT |-> 81, PAGINATE_BY |-> 1,
      URL_PREFIX |-> "/f", AUTHENTICATION |-> "tesss", DEBUG |-> TRUE,
      DATABASE |-> "file.db"]}

Environs == {<<>>, [SCOUT_DATABASE |-> "env.db"]}

Flags ==
    {<<>>,
     [api_key |-> "test"],
     [paginate_by |-> 1001],
     [host |-> "0.0.0.0", port |-> 80, url_prefix |-> "/s", debug |-> TRUE,
      paginate_by |-> 2, api_key |-> "test"]}

Args == {<<>>, <<"arg.db">>, <<"arg.db", "b.db">>}

Launches ==
    {Launch(file, environ, flags, args) :
        file \in ConfigFiles, environ \in Environs, flags \in Flags,
        args \in Args}

NextConfig ==
    \/ \E launch \in Launches : Main(launch)
    \/ \E name \in {"a", "b"} : IndexCreate(name)
    \/ \E page \in {Absent, <<"2">>} : IndexList(<<>>, page)

SpecConfig == Init /\ [][NextConfig]_vars

(***************************************************************************)
(* C26: for each of HOST, PORT, PAGINATE_BY, URL_PREFIX, AUTHENTICATION,   *)
(* DEBUG and DATABASE the value in effect is that of the highest source    *)
(* that sets it, in the order default < config file < environment <        *)
(* command line; a value of the config file is in effect whenever neither  *)
(* the environment nor the command line sets the option.                   *)
(***************************************************************************)
C26_Defaults ==
    [HOST |-> "127.0.0.1", PORT |-> 8000, PAGINATE_BY |-> 50,
     URL_PREFIX |-> "", AUTHENTICATION |-> NULL, DEBUG |-> FALSE,
     DATABASE |-> "scout.db"]

C26_FlagOf ==
    [HOST |-> "host", PORT |-> "port", PAGINATE_BY |-> "paginate_by",
     URL_PREFIX |-> "url_prefix", AUTHENTICATION |-> "api_key",
     DEBUG |-> "debug", DATABASE |-> ""]

C26_Expected(launch, o) ==
    IF o = "DATABASE" /\ launch.args # <<>> THEN launch.args[1]
    ELSE IF C26_FlagOf[o] \in DOMAIN launch.flags
    THEN launch.flags[C26_FlagOf[o]]
    ELSE IF o = "DATABASE" /\ "SCOUT_DATABASE" \in DOMAIN launch.environ
    THEN launch.environ.SCOUT_DATABASE
    ELSE IF o \in DOMAIN launch.file THEN launch.file[o]
    ELSE C26_Defaults[o]

\* The launches that are in order: at most one argument, a page size in
\* range, and a database named by some source.
C26_Valid(launch) ==
    /\ Len(launch.args) <= 1
    /\ "paginate_by" \in DOMAIN launch.flags =>
           launch.flags.paginate_by \in 1..1000
    /\ \/ launch.args # <<>>
       \/ "SCOUT_DATABASE" \in DOMAIN launch.environ
       \/ "DATABASE" \in DOMAIN launch.file

C26_ConfigPrecedence ==
    [][(resp'.op = "main" /\ C26_Valid(resp'.launch)) =>
           /\ resp'.code = 0
           /\ \A o \in Options :
                  config'[o] = C26_Expected(resp'.launch, o)]_vars

(***************************************************************************)
(* Concurrent attach operations: two request handlers attaching payloads   *)
(* to the documents of index "a", by Document.attach and by POST of a file *)
(* to a document, their statements interleaved.                            *)
(***************************************************************************)
NextRace ==
    \/ IndexCreate("a")
    \/ DocumentCreate(Body("c1", Absent, "a", NoList, NoMap), <<>>)
    \/ \E t \in Threads, document \in Document, data \in Payloads :
           StartAttach(t, document, "../f.txt", data)
    \/ \E t \in Threads, data \in Payloads :
           StartAttachmentCreate(t, "1", <<File("f.txt", data)>>)
    \/ \E t \in Threads : Execute(t)

SpecRace == Init /\ [][NextRace]_vars

(***************************************************************************)
(* C27: in every interleaving of concurrent attach operations that carry   *)
(* the same bytes every attach succeeds, one BlobData row exists for the   *)
(* hash of the bytes, and every attachment they create or update holds     *)
(* that hash; the writer that loses the insert race takes the constraint   *)
(* violation as success.                                                   *)
(***************************************************************************)
C27_Ran(t) ==
    /\ Pending(t) # <<>>
    /\ threads' = Run(t, Tail(Pending(t)))

C27_ConcurrentAttach ==
    [][/\ resp'.code # 500
       /\ \A t \in Threads :
              (C27_Ran(t) /\ Head(Pending(t)).op = "blob_create") =>
                  Cardinality({b \in BlobData' :
                      b.hash = SHA256_B64(Head(Pending(t)).data)}) = 1
       /\ \A t \in Threads :
              (/\ C27_Ran(t)
               /\ Head(Pending(t)).op \in
                      {"attachment_create", "attachment_save"}) =>
                  LET st == Head(Pending(t))
                      rows == {a \in Attachment' :
                                   /\ a.document = st.docid
                                   /\ a.filename = st.filename}
                  IN  /\ Cardinality(rows) = 1
                      /\ \A a \in rows :
                             /\ a.hash = SHA256_B64(st.data)
                             /\ blob_data(BlobData', a.hash) = {st.data}]_vars

\* Two handlers carrying the same bytes have both run their insert into
\* BlobData, one of them meeting the row of the other, and each is about to
\* write its Attachment row.
C27_Witness ==
    /\ \E t, u \in Threads :
           /\ t # u
           /\ Pending(t) # <<>> /\ Pending(u) # <<>>
           /\ Head(Pending(t)).op = "attachment_create"
           /\ Head(Pending(u)).op = "attachment_create"
           /\ Head(Pending(t)).data = Head(Pending(u)).data
           /\ Attachment = {}
    /\ Cardinality(BlobData) = 1

(***************************************************************************)
(* Concurrent POST / requests: two handlers creating indexes, under one    *)
(* name or two, their statements interleaved.                              *)
(***************************************************************************)
NextIndexRace ==
    \/ \E t \in Threads, name \in {"a", "b"} : StartIndexCreate(t, name)
    \/ \E t \in Threads : Execute(t)

SpecIndexRace == Init /\ [][NextIndexRace]_vars

(***************************************************************************)
(* C28: in every interleaving of concurrent POST / requests with one index *)
(* name, one request creates the Index row and is answered with the new    *)
(* index, every other is answered 400 with a conflict error, and one Index *)
(* row of that name exists afterwards.                                     *)
(***************************************************************************)
C28_Named(I, name) == {i \in I : i.name = name}

C28_ConcurrentIndexCreate ==
    [][\A t \in Threads :
          (/\ Pending(t) # <<>>
           /\ threads' = Run(t, Tail(Pending(t))) \/ threads' = Run(t, <<>>)
           /\ threads' # threads) =>
              LET st == Head(Pending(t))
                  name == st.filename
              IN  /\ Cardinality(C28_Named(Index', name)) = 1
                  /\ st.op = "index_create" =>
                         IF C28_Named(Index, name) # {}
                         THEN /\ Index' = Index
                              /\ resp'.code = 400
                              /\ resp'.error = "already exists"
                              /\ Pending(t)' = <<>>
                         ELSE /\ Cardinality(Index') = Cardinality(Index) + 1
                              /\ Head(Pending(t)').op = "index_detail"
                  /\ st.op = "index_detail" =>
                         /\ resp'.code = 200
                         /\ resp'.arg = name
                         /\ resp'.id \in {i.id : i \in C28_Named(Index, name)}
                         /\ UNCHANGED Index]_vars

\* Two handlers were creating index "a": one has inserted the row and has
\* yet to answer, the other has been answered 400.
C28_Witness ==
    /\ resp.op = "index_create"
    /\ resp.arg = "a"
    /\ resp.code = 400
    /\ \E t \in Threads :
           /\ Pending(t) # <<>>
           /\ Head(Pending(t)).op = "index_detail"
           /\ Head(Pending(t)).filename = "a"
    /\ Cardinality(Index) = 1

(***************************************************************************)
(* The REST operations, each run to completion: indexes created, renamed   *)
(* and deleted; documents created, updated and deleted; attachments        *)
(* created, replaced and deleted.                                          *)
(***************************************************************************)
RestBody == Body("c1", Absent, "a", NoList, Map({Entry("k1", JStr("v"))}))

RestUpdates ==
    {Body(Absent, Absent, "b", NoList, Map({Entry("k2", JInt(3))})),
     Body(Absent, Absent, "c", NoList, NoMap)}

NextRest ==
    \/ \E name \in {"a", "b"} : IndexCreate(name)
    \/ IndexUpdate("a", "b")
    \/ \E pk \in {"a", "b"} : IndexDelete(pk)
    \/ DocumentCreate(RestBody, <<File("f.txt", "xx")>>)
    \/ \E body \in RestUpdates : DocumentUpdate("1", body, <<>>)
    \/ \E pk \in {"1", "2"} : DocumentDelete(pk)
    \/ AttachmentCreate("1", <<File("g.jpg", "xx")>>)
    \/ AttachmentUpdate("1", "f.txt", <<File("f.txt", "yy")>>)
    \/ AttachmentDelete("1", "g.jpg")

SpecRest == Init /\ [][NextRest]_vars

(***************************************************************************)
(* C29: after any sequence of REST operations run to completion every      *)
(* IndexDocument row references an Index and a Document that exist, and    *)
(* every Metadata and Attachment row a Document that exists; hence the     *)
(* document_count of the index list, the count of membership rows, is the  *)
(* number of documents the index detail can return.                        *)
(***************************************************************************)
C29_Docids == {d.docid : d \in Document}

C29_Detail(index) ==
    {r \in index_rows(IndexDocument, index.id) : r.document \in C29_Docids}

C29_ReferentialIntegrity ==
    /\ \A r \in DOMAIN IndexDocument :
           /\ r.index \in {i.id : i \in Index}
           /\ r.document \in C29_Docids
    /\ \A m \in Metadata : m.document \in C29_Docids
    /\ \A a \in Attachment : a.document \in C29_Docids
    /\ \A index \in Index :
           document_count(IndexDocument, index) =
               sum_copies(IndexDocument, C29_Detail(index))

\* A document was deleted that had metadata, an attachment and an index,
\* and another document with metadata, an attachment and an index remains.
C29_Witness ==
    /\ resp.op = "document_delete"
    /\ resp.code = 200
    /\ Document # {}
    /\ Metadata # {}
    /\ Attachment # {}
    /\ IndexDocument # NoRows

(***************************************************************************)
(* C30: in every interleaving of a DELETE of document D with a concurrent  *)
(* request that writes to D, once both requests have finished no Metadata, *)
(* IndexDocument or Attachment row references D when the Document row of D *)
(* is gone.                                                                *)
(***************************************************************************)
C30_NoRowsOfDeletedDocument ==
    threads = NoThreads =>
        /\ \A a \in Attachment : \E d \in Document : d.docid = a.document
        /\ \A m \in Metadata : \E d \in Document : d.docid = m.document
        /\ \A r \in DOMAIN IndexDocument :
               \E d \in Document : d.docid = r.document

====
